---- MODULE Spec2Model ----
(***************************************************************************)
(* State-machine model of the paper-trading broker                          *)
(* (quantum_stock/core/broker_api.py, PaperTradingBroker), of the position  *)
(* exit scheduler (quantum_stock/autonomous/position_exit_scheduler.py), of *)
(* the agent coordinator (quantum_stock/agents/agent_coordinator.py), of    *)
(* the learning system (quantum_stock/autonomous/ai_learning_system.py) and *)
(* of the test trade of run_autonomous_paper_trading.py.                    *)
(*                                                                           *)
(* Units.  Python floats are modelled as exact rationals:                    *)
(*   - a price is an integer number of 100 VND (26.5 thousand VND = 265);    *)
(*   - cash, commission and tax are held in units of 1/MoneyDen of           *)
(*     (price unit x share), so that x * 0.0015 and x * 0.001 are integers;  *)
(*   - a broker position's avg_price is a reduced fraction <<num, den>>;     *)
(*   - a percentage is an integer number of 1/PctDen;                        *)
(*   - the scheduler's trailing_stop_price is held in 1/PctDen price units.  *)
(* A Python None argument is the empty tuple << >>, a given value v is <<v>>.*)
(* A dict is a function whose DOMAIN is its key set.                         *)
(***************************************************************************)
EXTENDS Integers, Sequences, FiniteSets, TLC

\* ------------------------------------------------------------------------
\* Bounds of the model
\* ------------------------------------------------------------------------
MaxOrders == 3
initial_balance == 26000

Symbols == {"ACB", "STB"}
Sides == {"BUY", "SELL"}
None == << >>
Quantities == {100, 150}
PriceArgs == {None, <<250>>}
QuotedSymbols == {"ACB"}
LastArgs == {300}
ReferenceArgs == {None, <<260>>}

\* the scheduler's clock runs over MaxDays days from Thursday 23 January 2025
MaxDays == 2
StartDate == <<2025, 1, 23>>
Callbacks == {"cb1", "cb2"}
PriceTicks == {900, 1000, 1200}
EntryPrices == {1000}
EntryQuantities == {100}
SettlePrices == {1000, 1020}

\* concurrent place_order requests
Tasks == {"t1", "t2"}
ConcQuantities == {100}

\* exit priority: the trailing stops tried and the prices polled
TrailingStopPcts == {5, 10}
ExitPriceTicks == {900, 950, 1000, 1200}

\* settlement calendar: entry on Friday 17, Monday 20 or Monday 27 January
\* 2025 (the Monday before the Tet holidays), clock up to 6 February
EntryDays == {<<2025, 1, 17>>, <<2025, 1, 20>>, <<2025, 1, 27>>}
SettleEnd == <<2025, 2, 6>>

\* default price fetcher: what vnstock and the parquet file give, and the
\* draw of the mock price in percent
LiveQuotes == {None, <<1200>>}
HistCloses == {None, <<1000>>}
MockMoves == {-3, 3}

\* coordinator: analyze_stock calls made, and what the agents give
MaxRounds == 1
AdvisoryResults ==
  {[raised |-> TRUE, signal_type |-> "", confidence |-> 0],
   [raised |-> FALSE, signal_type |-> "BUY", confidence |-> 80],
   [raised |-> FALSE, signal_type |-> "SELL", confidence |-> 100]}
RiskResults ==
  {[raised |-> TRUE, signal_type |-> "", confidence |-> 0],
   [raised |-> FALSE, signal_type |-> "HOLD", confidence |-> 50],
   [raised |-> FALSE, signal_type |-> "SELL", confidence |-> 90]}
ChiefResults ==
  {[raised |-> FALSE, signal_type |-> "BUY", confidence |-> 75],
   [raised |-> FALSE, signal_type |-> "HOLD", confidence |-> 0]}

\* the dicts analyze_stock hands to _calculate_consensus: the RiskDoctor's
\* signal and those of the advisory agents that returned one
SignalValues ==
  {[raised |-> FALSE, signal_type |-> "BUY", confidence |-> 80],
   [raised |-> FALSE, signal_type |-> "SELL", confidence |-> 100],
   [raised |-> FALSE, signal_type |-> "SELL", confidence |-> 60],
   [raised |-> FALSE, signal_type |-> "HOLD", confidence |-> 50],
   [raised |-> FALSE, signal_type |-> "SELL", confidence |-> 90]}
SignalDicts ==
  UNION {[{"RiskDoctor"} \cup A -> SignalValues] : A \in SUBSET {"Alex", "Bull", "Bear"}}

\* concurrent analyze_stock requests: an analyze() call of an advisory agent
\* returns a signal, raises, or stays suspended for ever (NeverReturns)
RoundTasks == {"r1", "r2"}
NeverReturns == [raised |-> FALSE, signal_type |-> "", confidence |-> 0]
RoundResults ==
  {[raised |-> FALSE, signal_type |-> "BUY", confidence |-> 80], NeverReturns}

\* learning system: the clock runs to LearnEnd; the performance tracker holds
\* metrics of MetricAgents.  AgentMetrics fields are given as fractions; those
\* of "wild" and "sour" lie outside [0, 1] (the tracker's own code bounds
\* nothing here: accuracy and consistency_score are used as they come).
LearnEnd == <<2025, 1, 31>>
MetricAgents == {"Alex", "Flow"}
MetricsSet ==
  {[tag |-> "few", total_signals |-> 4, accuracy |-> <<1, 1>>,
    sharpe_ratio |-> <<6, 1>>, consistency_score |-> <<1, 1>>],
   [tag |-> "poor", total_signals |-> 5, accuracy |-> <<0, 1>>,
    sharpe_ratio |-> <<-1, 1>>, consistency_score |-> <<0, 1>>],
   [tag |-> "good", total_signals |-> 5, accuracy |-> <<1, 1>>,
    sharpe_ratio |-> <<6, 1>>, consistency_score |-> <<1, 1>>],
   [tag |-> "wild", total_signals |-> 5, accuracy |-> <<1, 1>>,
    sharpe_ratio |-> <<6, 1>>, consistency_score |-> <<30, 1>>],
   [tag |-> "sour", total_signals |-> 5, accuracy |-> <<1, 1>>,
    sharpe_ratio |-> <<6, 1>>, consistency_score |-> <<-30, 1>>]}

\* concurrent record_outcome requests, and the metrics the tracker holds when
\* they run: enough signals (two agents with 5 each) or too few
LearnTasks == {"l1", "l2"}
ConcMetricTags == {"good", "few"}

\* one weight computed on its own: the weight before, and the metrics of the
\* agent (accuracy and consistency_score within [0, 1] and outside)
AdjustOldWeights == {<<1, 10>>, <<1, 1>>, <<6, 5>>, <<3, 1>>}
AdjustMetrics ==
  [total_signals : {4, 5},
   accuracy : {<<0, 1>>, <<1, 2>>, <<1, 1>>},
   sharpe_ratio : {<<-1, 1>>, <<3, 2>>, <<6, 1>>},
   consistency_score : {<<0, 1>>, <<1, 2>>, <<1, 1>>, <<30, 1>>, <<-30, 1>>}]

\* test trades: the requests made, on an account opened with TradeFunds
\* times initial_balance (12.5% of it pays for one lot at the test price)
TradeActions == {"BUY", "SELL"}
TradeFunds == <<107, 13>>

\* ------------------------------------------------------------------------
\* PaperTradingBroker: constants
\* ------------------------------------------------------------------------
COMMISSION_RATE == <<15, 10000>>
SELLING_TAX == <<10, 10000>>
CEILING_PCT == <<7, 100>>
LOT_SIZE == 100
MoneyDen == COMMISSION_RATE[2]
PctDen == CEILING_PCT[2]

default_prices ==
  [ACB |-> [last |-> 265, reference |-> 260],
   STB |-> [last |-> 185, reference |-> 180]]

EmptyDict == [k \in {} |-> 0]

RECURSIVE GCD(_, _)
GCD(a, b) == IF b = 0 THEN a ELSE GCD(b, a % b)

\* n/d as a reduced fraction (d > 0, n >= 0)
Frac(n, d) == LET g == GCD(n, d) IN <<n \div g, d \div g>>

\* fractions n/d with d > 0 (n of either sign)
FracLess(x, y) == x[1] * y[2] < y[1] * x[2]

FracSum(x, y) == Frac(x[1] * y[2] + y[1] * x[2], x[2] * y[2])

FracProd(x, y) == Frac(x[1] * y[1], x[2] * y[2])

VARIABLES
  cash_balance,     \* broker cash, in 1/MoneyDen
  order_counter,    \* broker order counter
  orders,           \* broker orders: order_id (1..order_counter) -> Order
  positions,        \* broker positions: dict symbol -> Position
  trade_history,    \* broker trade history (sequence of trades)
  market_prices,    \* broker simulated quotes: dict symbol -> quote
  last_call,        \* the last broker call: its arguments and how it ended
  rt,               \* history variable: the buy/sell round trip in progress
  now,              \* datetime.now().date(), as a day of the year 2025
  sched_positions,  \* scheduler positions: the dict symbol -> Position, as the
                    \* sequence of its values in insertion order
  on_exit_callbacks,\* scheduler exit callbacks, in registration order
  last_poll,        \* history variable: what the check_all_positions call just
                    \* made did, per position in iteration order (<< >> after
                    \* any other operation)
  tasks,            \* place_order coroutines on the event loop: task -> frame
  is_running,       \* scheduler is_running
  start_task,       \* where the scheduler's start() coroutine stands
  discussions,      \* coordinator discussions (history of TeamDiscussion)
  last_round,       \* history variable: how the last analyze_stock call ended
  parallel_analysis,\* coordinator parallel_analysis
  rounds,           \* analyze_stock coroutines on the event loop: task -> frame
  messages,         \* the advisory agents' message buffers: agent -> the
                    \* tasks whose rounds emitted the messages, in order
  last_score,       \* history variable: the last _calculate_consensus call
                    \* made on its own, its argument and its result
  agent_weights,    \* learning system agent_weights: dict agent -> fraction
  last_weight_update, \* learning system last_weight_update (None or <<day>>)
  last_record,      \* history variable: what the last record_outcome call saw
  learn_tasks,      \* record_outcome coroutines on the event loop: task -> frame
  last_adjust,      \* history variable: the last weight computation made on
                    \* its own, its arguments and its result
  last_trade,       \* history variable: how the last test trade ended
  last_count        \* history variable: the last count_trading_days call
                    \* made on its own, its arguments and its results

broker_vars == <<cash_balance, order_counter, orders, positions, trade_history,
                 market_prices, last_call, rt, tasks>>

loop_vars == <<is_running, start_task>>

sched_vars == <<now, sched_positions, on_exit_callbacks, last_poll, loop_vars>>

coord_vars ==
  <<discussions, last_round, parallel_analysis, rounds, messages, last_score>>

learn_vars ==
  <<agent_weights, last_weight_update, last_record, learn_tasks, last_adjust>>

vars == <<broker_vars, sched_vars, coord_vars, learn_vars, last_trade, last_count>>

\* ------------------------------------------------------------------------
\* Order
\* ------------------------------------------------------------------------
Order(order_id, symbol, side, quantity, price) ==
  [order_id |-> order_id, symbol |-> symbol, side |-> side,
   quantity |-> quantity, price |-> price, status |-> "PENDING",
   filled_quantity |-> 0, filled_price |-> 0, commission |-> 0, tax |-> 0,
   reject_reason |-> "", status_log |-> <<"PENDING">>]

\* an assignment to order.status; status_log records every status the order had
SetStatus(order, st) ==
  [order EXCEPT !.status = st, !.status_log = Append(@, st)]

is_active_NoCheck(order) == TRUE

is_active(order) == order.status \in {"PENDING", "QUEUED", "PARTIAL"}

\* ------------------------------------------------------------------------
\* PaperTradingBroker: quotes
\* ------------------------------------------------------------------------
get_market_price(mp, symbol) ==
  IF symbol \in DOMAIN mp THEN mp[symbol] ELSE default_prices[symbol]

\* ------------------------------------------------------------------------
\* PaperTradingBroker._execute_order: immediate fill at the market price
\* ------------------------------------------------------------------------
BuyPosition(pos, order, execution_price) ==
  LET order_value == order.quantity * execution_price IN
  IF order.symbol \in DOMAIN pos
    THEN LET p == pos[order.symbol]
             total_qty == p.quantity + order.quantity
             \* total_cost = quantity * avg_price + order_value, over avg_price's den
             total_cost_num == p.quantity * p.avg_price[1] + order_value * p.avg_price[2]
         IN [pos EXCEPT ![order.symbol] =
               [quantity |-> total_qty,
                avg_price |-> Frac(total_cost_num, p.avg_price[2] * total_qty),
                realized_pnl |-> p.realized_pnl]]
    ELSE (order.symbol :> [quantity |-> order.quantity,
                           avg_price |-> <<execution_price, 1>>,
                           realized_pnl |-> <<0, 1>>]) @@ pos

\* realized_pnl = proceeds - cost, in 1/MoneyDen: proceeds = order_value -
\* commission - tax and cost = quantity * avg_price, written as
\* quantity * (execution_price - avg_price) less the two fees
realized_pnl(p, order, execution_price) ==
  LET fees == order.quantity * execution_price
                * (COMMISSION_RATE[1] + SELLING_TAX[1])
      gain == order.quantity * MoneyDen
                * (execution_price * p.avg_price[2] - p.avg_price[1])
  IN Frac(gain - fees * p.avg_price[2], p.avg_price[2])

\* "pos.realized_pnl += realized_pnl; pos.quantity -= order.quantity", then
\* "if pos.quantity <= 0: del self.positions[order.symbol]"
SellPosition(pos, order, execution_price) ==
  LET p == pos[order.symbol]
      left == p.quantity - order.quantity
  IN IF left <= 0
       THEN [s \in DOMAIN pos \ {order.symbol} |-> pos[s]]
       ELSE [pos EXCEPT
               ![order.symbol].quantity = left,
               ![order.symbol].realized_pnl =
                 FracSum(@, realized_pnl(p, order, execution_price))]

RECURSIVE FracSumOver(_, _)
FracSumOver(f, S) ==
  IF S = {} THEN <<0, 1>>
  ELSE LET x == CHOOSE y \in S : TRUE IN FracSum(f[x], FracSumOver(f, S \ {x}))

\* get_performance_summary()['realized_pnl']:
\* "sum(pos.realized_pnl for pos in self.positions.values())"
total_realized(pos) ==
  FracSumOver([s \in DOMAIN pos |-> pos[s].realized_pnl], DOMAIN pos)

_execute_order_NoTaxDebit(order, market_price, cash, pos, th) ==
  LET execution_price == market_price
      order_value == order.quantity * execution_price
      commission == order_value * COMMISSION_RATE[1]
      tax == IF order.side = "SELL" THEN order_value * SELLING_TAX[1] ELSE 0
      filled == [SetStatus(order, "FILLED") EXCEPT
                   !.filled_quantity = order.quantity,
                   !.filled_price = execution_price,
                   !.commission = commission,
                   !.tax = tax]
  IN [order |-> filled,
      cash |-> IF order.side = "BUY"
                 THEN cash - (order_value * MoneyDen + commission)
                 ELSE cash + (order_value * MoneyDen - commission),
      positions |-> IF order.side = "BUY"
                      THEN BuyPosition(pos, order, execution_price)
                      ELSE SellPosition(pos, order, execution_price),
      trade_history |-> Append(th,
          [order_id |-> order.order_id, symbol |-> order.symbol,
           side |-> order.side, quantity |-> order.quantity,
           price |-> execution_price, commission |-> commission, tax |-> tax])]

\* (the selling tax charged on both sides)
_execute_order_TaxOnBuy(order, market_price, cash, pos, th) ==
  LET execution_price == market_price
      order_value == order.quantity * execution_price
      commission == order_value * COMMISSION_RATE[1]
      tax == order_value * SELLING_TAX[1]
      filled == [SetStatus(order, "FILLED") EXCEPT
                   !.filled_quantity = order.quantity,
                   !.filled_price = execution_price,
                   !.commission = commission,
                   !.tax = tax]
  IN [order |-> filled,
      cash |-> IF order.side = "BUY"
                 THEN cash - (order_value * MoneyDen + commission)
                 ELSE cash + (order_value * MoneyDen - commission - tax),
      positions |-> IF order.side = "BUY"
                      THEN BuyPosition(pos, order, execution_price)
                      ELSE SellPosition(pos, order, execution_price),
      trade_history |-> Append(th,
          [order_id |-> order.order_id, symbol |-> order.symbol,
           side |-> order.side, quantity |-> order.quantity,
           price |-> execution_price, commission |-> commission, tax |-> tax])]

_execute_order(order, market_price, cash, pos, th) ==
  LET execution_price == market_price
      order_value == order.quantity * execution_price
      commission == order_value * COMMISSION_RATE[1]
      tax == IF order.side = "SELL" THEN order_value * SELLING_TAX[1] ELSE 0
      filled == [SetStatus(order, "FILLED") EXCEPT
                   !.filled_quantity = order.quantity,
                   !.filled_price = execution_price,
                   !.commission = commission,
                   !.tax = tax]
  IN [order |-> filled,
      cash |-> IF order.side = "BUY"
                 THEN cash - (order_value * MoneyDen + commission)
                 ELSE cash + (order_value * MoneyDen - commission - tax),
      positions |-> IF order.side = "BUY"
                      THEN BuyPosition(pos, order, execution_price)
                      ELSE SellPosition(pos, order, execution_price),
      trade_history |-> Append(th,
          [order_id |-> order.order_id, symbol |-> order.symbol,
           side |-> order.side, quantity |-> order.quantity,
           price |-> execution_price, commission |-> commission, tax |-> tax])]

\* ------------------------------------------------------------------------
\* PaperTradingBroker.place_order: the validations, in the order of the code
\* ------------------------------------------------------------------------
\* "if quantity % self.LOT_SIZE != 0: raise ValueError"
LotSizeError(quantity) == quantity % LOT_SIZE # 0

\* "if price > ceiling: raise"  with ceiling = ref_price * (1 + CEILING_PCT)
AboveCeiling(price, ref_price) ==
  price * PctDen > ref_price * (PctDen + CEILING_PCT[1])

\* "if price < floor: raise"  with floor = ref_price * (1 - CEILING_PCT)
BelowFloor(price, ref_price) ==
  price * PctDen < ref_price * (PctDen - CEILING_PCT[1])

\* "total_required > self.cash_balance", total_required = order_value + commission
InsufficientBuyingPower_Always(quantity, price, cash) == TRUE

InsufficientBuyingPower(quantity, price, cash) ==
  quantity * price * MoneyDen + quantity * price * COMMISSION_RATE[1] > cash

\* "not position or position.quantity < quantity"
InsufficientPosition(pos, symbol, quantity) ==
  \/ symbol \notin DOMAIN pos
  \/ pos[symbol].quantity < quantity

\* The result of one place_order call on the broker state (cash, pos, th, n, mp):
\* outcome "raised" (no order exists) or "returned" (the order is stored).
place_order(symbol, side, quantity, price_arg, cash, pos, th, n, mp) ==
  LET market_data == get_market_price(mp, symbol)
      market_price == market_data.last
      price == IF price_arg = None THEN market_price ELSE price_arg[1]
      ref_price == market_data.reference
      unchanged == [cash |-> cash, positions |-> pos, trade_history |-> th]
  IN
  IF LotSizeError(quantity)
    THEN unchanged @@ [outcome |-> "raised", error |-> "lot size", stored |-> FALSE]
  ELSE IF AboveCeiling(price, ref_price)
    THEN unchanged @@ [outcome |-> "raised", error |-> "ceiling", stored |-> FALSE]
  ELSE IF BelowFloor(price, ref_price)
    THEN unchanged @@ [outcome |-> "raised", error |-> "floor", stored |-> FALSE]
  ELSE
    LET order == Order(n + 1, symbol, side, quantity, price) IN
    IF side = "BUY" /\ InsufficientBuyingPower(quantity, price, cash)
      THEN unchanged @@
           [outcome |-> "returned", error |-> "", stored |-> TRUE,
            order |-> [SetStatus(order, "REJECTED") EXCEPT
                         !.reject_reason = "Insufficient buying power"]]
    ELSE IF side = "SELL" /\ InsufficientPosition(pos, symbol, quantity)
      THEN unchanged @@
           [outcome |-> "returned", error |-> "", stored |-> TRUE,
            order |-> [SetStatus(order, "REJECTED") EXCEPT
                         !.reject_reason = "Insufficient position"]]
    ELSE _execute_order(order, market_price, cash, pos, th) @@
           [outcome |-> "returned", error |-> "", stored |-> TRUE]

\* ------------------------------------------------------------------------
\* History of the round trip in progress (not program state):
\* stage 1 after a filled BUY, stage 2 after the SELL that closes it, 0 otherwise.
\* A BUY that repeats a completed round trip continues the same chain.
\* ------------------------------------------------------------------------
NoRoundTrip ==
  [stage |-> 0, symbol |-> "", quantity |-> 0, fill_price |-> 0,
   cash_start |-> 0, fees |-> 0, flat |-> FALSE, cycles |-> 0]

RoundTripAfter(r, o, cash_before, pos_before) ==
  IF o.status # "FILLED" THEN r
  ELSE IF o.side = "BUY"
    THEN IF /\ r.stage = 2
            /\ r.symbol = o.symbol
            /\ r.quantity = o.quantity
            /\ r.fill_price = o.filled_price
           THEN [r EXCEPT !.stage = 1, !.fees = @ + o.commission + o.tax]
           ELSE [stage |-> 1, symbol |-> o.symbol, quantity |-> o.quantity,
                 fill_price |-> o.filled_price, cash_start |-> cash_before,
                 fees |-> o.commission + o.tax,
                 flat |-> o.symbol \notin DOMAIN pos_before, cycles |-> 0]
  ELSE IF /\ r.stage = 1
          /\ r.symbol = o.symbol
          /\ r.quantity = o.quantity
          /\ r.fill_price = o.filled_price
    THEN [r EXCEPT !.stage = 2, !.fees = @ + o.commission + o.tax,
                   !.cycles = @ + 1]
    ELSE NoRoundTrip

\* ------------------------------------------------------------------------
\* Broker actions
\* ------------------------------------------------------------------------
NoCall ==
  [op |-> "init", symbol |-> "", side |-> "", quantity |-> 0, price |-> None,
   outcome |-> "", error |-> "", order_id |-> 0, cash_before |-> 0]

PlaceOrder(symbol, side, quantity, price_arg) ==
  /\ order_counter < MaxOrders
  /\ LET r == place_order(symbol, side, quantity, price_arg, cash_balance,
                          positions, trade_history, order_counter, market_prices)
     IN /\ cash_balance' = r.cash
        /\ positions' = r.positions
        /\ trade_history' = r.trade_history
        /\ order_counter' = IF r.stored THEN order_counter + 1 ELSE order_counter
        /\ orders' = IF r.stored THEN Append(orders, r.order) ELSE orders
        /\ rt' = IF r.stored
                   THEN RoundTripAfter(rt, r.order, cash_balance, positions)
                   ELSE rt
        /\ last_call' =
             [op |-> "place_order", symbol |-> symbol, side |-> side,
              quantity |-> quantity, price |-> price_arg,
              outcome |-> r.outcome, error |-> r.error,
              order_id |-> IF r.stored THEN order_counter + 1 ELSE 0,
              cash_before |-> cash_balance]
  /\ UNCHANGED <<market_prices, tasks, sched_vars, coord_vars, learn_vars, last_trade, last_count>>

\* cancel_order(order_id): False for an unknown or inactive order
CancelOrder(order_id) ==
  /\ IF order_id \in DOMAIN orders /\ is_active(orders[order_id])
       THEN /\ orders' = [orders EXCEPT ![order_id] = SetStatus(@, "CANCELLED")]
            /\ last_call' = [NoCall EXCEPT !.op = "cancel_order",
                               !.order_id = order_id, !.outcome = "True"]
       ELSE /\ orders' = orders
            /\ last_call' = [NoCall EXCEPT !.op = "cancel_order",
                               !.order_id = order_id, !.outcome = "False"]
  /\ UNCHANGED <<cash_balance, order_counter, positions, trade_history,
                 market_prices, rt, tasks, sched_vars, coord_vars, learn_vars, last_trade, last_count>>

\* set_market_price(symbol, last, reference=None): "reference or last"
SetMarketPrice(symbol, last, reference) ==
  /\ market_prices' =
       (symbol :> [last |-> last,
                   reference |-> IF reference = None \/ reference = <<0>>
                                   THEN last ELSE reference[1]])
       @@ market_prices
  /\ last_call' = [NoCall EXCEPT !.op = "set_market_price", !.symbol = symbol]
  /\ UNCHANGED <<cash_balance, order_counter, orders, positions,
                 trade_history, rt, tasks, sched_vars, coord_vars, learn_vars, last_trade, last_count>>

\* reset(): the account goes back to its initial balance; quotes are kept
Reset ==
  /\ order_counter > 0
  /\ cash_balance' = initial_balance * MoneyDen
  /\ positions' = EmptyDict
  /\ orders' = << >>
  /\ trade_history' = << >>
  /\ order_counter' = 0
  /\ rt' = NoRoundTrip
  /\ last_call' = [NoCall EXCEPT !.op = "reset"]
  /\ UNCHANGED <<market_prices, tasks, sched_vars, coord_vars, learn_vars, last_trade, last_count>>

\* ------------------------------------------------------------------------
\* place_order as a coroutine on the asyncio event loop
\* ------------------------------------------------------------------------
\* A frame is one call of place_order: "idle" (no call), "ready" (the task is
\* created and waits for the event loop), "await_price" (suspended in
\* "await self.get_market_price(symbol)"), "await_execute" (suspended in
\* "await self._execute_order(order, market_price)").  overlapped is history:
\* another call completed while this one was waiting.
IdleFrame ==
  [pc |-> "idle", symbol |-> "", side |-> "", quantity |-> 0, price |-> None,
   order |-> None, market_price |-> 0, cash_before |-> 0, overlapped |-> FALSE]

\* An await hands control back to the event loop only if the awaited
\* coroutine suspends.  The body of get_market_price contains no await, and
\* neither does the body of _execute_order (_save_state writes its file
\* synchronously): place_order runs from its first line to its return
\* without the event loop running another task.
get_market_price_Suspends == TRUE

get_market_price_suspends == FALSE

_execute_order_suspends == FALSE

Ledger ==
  [cash |-> cash_balance, positions |-> positions,
   trade_history |-> trade_history, order_counter |-> order_counter,
   orders |-> orders]

Finished(f, L, outcome, error, order_id) ==
  [frame |-> IdleFrame, ledger |-> L, done |-> TRUE, outcome |-> outcome,
   error |-> error, order_id |-> order_id, call |-> f]

Suspended(f, L) ==
  [frame |-> f, ledger |-> L, done |-> FALSE, outcome |-> "", error |-> "",
   order_id |-> 0, call |-> f]

\* "order = await self._execute_order(...)", then "self.orders[order_id] = order"
FillStage(f, L) ==
  LET r == _execute_order(f.order[1], f.market_price, L.cash, L.positions,
                          L.trade_history)
  IN Finished(f, [L EXCEPT !.cash = r.cash, !.positions = r.positions,
                           !.trade_history = r.trade_history,
                           !.orders = (r.order.order_id :> r.order) @@ @],
              "returned", "", r.order.order_id)

\* from the return of get_market_price to the await of _execute_order
ValidateStage(f, market_data, L) ==
  LET market_price == market_data.last
      price == IF f.price = None THEN market_price ELSE f.price[1]
      ref_price == market_data.reference
  IN
  IF AboveCeiling(price, ref_price) THEN Finished(f, L, "raised", "ceiling", 0)
  ELSE IF BelowFloor(price, ref_price) THEN Finished(f, L, "raised", "floor", 0)
  ELSE
    LET n == L.order_counter + 1
        order == Order(n, f.symbol, f.side, f.quantity, price)
        L1 == [L EXCEPT !.order_counter = n]
        Reject(reason) ==
          Finished(f, [L1 EXCEPT !.orders =
                         (n :> [SetStatus(order, "REJECTED") EXCEPT
                                  !.reject_reason = reason]) @@ @],
                   "returned", "", n)
        g == [f EXCEPT !.order = <<order>>, !.market_price = market_price,
                       !.pc = "await_execute"]
    IN IF f.side = "BUY" /\ InsufficientBuyingPower(f.quantity, price, L.cash)
         THEN Reject("Insufficient buying power")
       ELSE IF f.side = "SELL" /\ InsufficientPosition(L.positions, f.symbol, f.quantity)
         THEN Reject("Insufficient position")
       ELSE IF _execute_order_suspends THEN Suspended(g, L1)
       ELSE FillStage(g, L1)

\* from the first line of place_order to the await of get_market_price
StartStage(f, L, mp) ==
  LET g == [f EXCEPT !.cash_before = L.cash] IN
  IF LotSizeError(g.quantity) THEN Finished(g, L, "raised", "lot size", 0)
  ELSE IF get_market_price_suspends
    THEN Suspended([g EXCEPT !.pc = "await_price"], L)
  ELSE ValidateStage(g, get_market_price(mp, g.symbol), L)

\* the event loop runs the task from where it stands to its next suspension
RunStage(f, L, mp) ==
  IF f.pc = "ready" THEN StartStage(f, L, mp)
  ELSE IF f.pc = "await_price"
    THEN ValidateStage(f, get_market_price(mp, f.symbol), L)
  ELSE FillStage(f, L)

InFlight == {t \in DOMAIN tasks : tasks[t].pc # "idle"}

\* a request creates a task for broker.place_order(symbol, side, quantity, price)
SpawnPlaceOrder(t, symbol, side, quantity, price_arg) ==
  /\ tasks[t].pc = "idle"
  /\ order_counter + Cardinality(InFlight) < MaxOrders
  /\ tasks' = [tasks EXCEPT ![t] =
                 [IdleFrame EXCEPT !.pc = "ready", !.symbol = symbol,
                                   !.side = side, !.quantity = quantity,
                                   !.price = price_arg]]
  /\ UNCHANGED <<cash_balance, order_counter, orders, positions, trade_history,
                 market_prices, last_call, rt, sched_vars, coord_vars, learn_vars, last_trade, last_count>>

\* the event loop picks task t and runs it up to its next suspension
RunTask(t) ==
  /\ tasks[t].pc # "idle"
  /\ LET r == RunStage(tasks[t], Ledger, market_prices)
     IN /\ cash_balance' = r.ledger.cash
        /\ positions' = r.ledger.positions
        /\ trade_history' = r.ledger.trade_history
        /\ order_counter' = r.ledger.order_counter
        /\ orders' = r.ledger.orders
        /\ tasks' = [u \in DOMAIN tasks |->
                       IF u = t THEN r.frame
                       ELSE IF r.done /\ tasks[u].pc # "idle"
                         THEN [tasks[u] EXCEPT !.overlapped = TRUE]
                       ELSE tasks[u]]
        /\ rt' = IF r.done /\ r.order_id # 0
                   THEN RoundTripAfter(rt, r.ledger.orders[r.order_id],
                                       r.call.cash_before, positions)
                   ELSE rt
        /\ last_call' =
             IF r.done
               THEN [op |-> "place_order", symbol |-> r.call.symbol,
                     side |-> r.call.side, quantity |-> r.call.quantity,
                     price |-> r.call.price, outcome |-> r.outcome,
                     error |-> r.error, order_id |-> r.order_id,
                     cash_before |-> r.call.cash_before]
               ELSE last_call
  /\ UNCHANGED <<market_prices, sched_vars, coord_vars, learn_vars, last_trade, last_count>>

\* ------------------------------------------------------------------------
\* position_exit_scheduler: trading-day calendar
\* ------------------------------------------------------------------------
\* A date is held as its day of the year 2025: datetime(2025, m, d).date()
DaysBeforeMonth == <<0, 31, 59, 90, 120, 151, 181, 212, 243, 273, 304, 334>>

Date(ymd) == DaysBeforeMonth[ymd[2]] + ymd[3]

VN_HOLIDAYS_2025 ==
  {<<2025, 1, 1>>, <<2025, 1, 28>>, <<2025, 1, 29>>, <<2025, 1, 30>>,
   <<2025, 1, 31>>, <<2025, 2, 1>>, <<2025, 2, 2>>, <<2025, 2, 3>>,
   <<2025, 4, 7>>, <<2025, 4, 30>>, <<2025, 5, 1>>, <<2025, 9, 2>>,
   <<2025, 9, 3>>}

VN_HOLIDAY_DATES == {Date(h) : h \in VN_HOLIDAYS_2025}

FirstDay == Date(StartDate)
LastDay == FirstDay + MaxDays

\* date.weekday() of a day of the year 2025 (Monday = 0; 1 January is a Wednesday)
weekday(d) == (d + 1) % 7

RECURSIVE count_loop(_, _, _)
count_loop(current, end, trading_days) ==
  IF current <= end
    THEN LET is_weekend == weekday(current) >= 5
             is_holiday == current \in VN_HOLIDAY_DATES
         IN count_loop(current + 1, end,
                       IF ~is_weekend /\ ~is_holiday
                         THEN trading_days + 1 ELSE trading_days)
    ELSE trading_days

\* (the day of start_date left out)
count_trading_days_AfterStart(start_date, end_date) ==
  count_loop(start_date + 1, end_date, 0)

count_trading_days(start_date, end_date) == count_loop(start_date, end_date, 0)

\* fixes/fix_critical_issues.py: its own holiday list and count
FIX_VN_HOLIDAYS_2025 ==
  {<<2025, 1, 1>>, <<2025, 1, 28>>, <<2025, 1, 29>>, <<2025, 1, 30>>,
   <<2025, 1, 31>>, <<2025, 2, 1>>, <<2025, 2, 2>>, <<2025, 2, 3>>,
   <<2025, 4, 7>>, <<2025, 4, 30>>, <<2025, 5, 1>>, <<2025, 9, 2>>,
   <<2025, 9, 3>>}

holiday_dates == {Date(h) : h \in FIX_VN_HOLIDAYS_2025}

RECURSIVE count_loop_fixed(_, _, _)
count_loop_fixed(current, end, trading_days) ==
  IF current <= end
    THEN LET is_weekend == weekday(current) >= 5
             is_holiday == current \in holiday_dates
         IN count_loop_fixed(current + 1, end,
                             IF ~is_weekend /\ ~is_holiday
                               THEN trading_days + 1 ELSE trading_days)
    ELSE trading_days

count_trading_days_fixed(start_date, end_date) ==
  count_loop_fixed(start_date, end_date, 0)

\* the dates count_trading_days is tried on: 17 January to 6 February 2025
\* (two weekends and the Tet holidays) and 26 to 31 December 2025
CountDates ==
  (Date(<<2025, 1, 17>>)..Date(<<2025, 2, 6>>))
    \cup (Date(<<2025, 12, 26>>)..Date(<<2025, 12, 31>>))

\* the longest range counted (an end before the start is a range too)
MaxSpan == 21

NoCount == [start_date |-> 0, end_date |-> 0, days |-> 0, fixed |-> 0]

\* count_trading_days(start_date, end_date) and
\* count_trading_days_fixed(start_date, end_date), called on their own (once)
CountTradingDays(start_date, end_date) ==
  /\ last_count = NoCount
  /\ last_count' =
       [start_date |-> start_date, end_date |-> end_date,
        days |-> count_trading_days(start_date, end_date),
        fixed |-> count_trading_days_fixed(start_date, end_date)]
  /\ UNCHANGED <<broker_vars, sched_vars, coord_vars, learn_vars, last_trade>>

\* ------------------------------------------------------------------------
\* position_exit_scheduler.Position
\* ------------------------------------------------------------------------
NoReason == "None"

\* Position(...) followed by __post_init__ (peak_price and trailing_stop_price
\* are left at their default 0 by every caller)
Position(symbol, quantity, avg_price, entry_date, take_profit_pct, trailing_stop_pct, stop_loss_pct, has_trailing_stop) ==
  [symbol |-> symbol, quantity |-> quantity, avg_price |-> avg_price,
   entry_date |-> entry_date, current_price |-> 0,
   peak_price |-> avg_price,
   unrealized_pnl |-> 0, unrealized_pnl_pct |-> <<0, 1>>,
   take_profit_pct |-> take_profit_pct,
   trailing_stop_pct |-> trailing_stop_pct,
   stop_loss_pct |-> stop_loss_pct,
   has_trailing_stop |-> has_trailing_stop,
   trailing_stop_price |-> avg_price * (PctDen - trailing_stop_pct),
   trading_days_held |-> 0, can_sell |-> FALSE, exit_reason |-> NoReason]

\* (the entry price marked to the market price)
update_price_Rebase(position, price, today) ==
  LET days == count_trading_days(position.entry_date, today) IN
  [position EXCEPT
     !.current_price = price,
     !.avg_price = price,
     !.unrealized_pnl = (price - position.avg_price) * position.quantity,
     !.unrealized_pnl_pct = IF position.avg_price > 0
                              THEN <<price - position.avg_price, position.avg_price>>
                              ELSE <<0, 1>>,
     !.trading_days_held = days,
     !.can_sell = (days >= 2)]

\* (sellable on the second trading day only)
update_price_ExactlyTwo(position, price, today) ==
  LET days == count_trading_days(position.entry_date, today) IN
  [position EXCEPT
     !.current_price = price,
     !.unrealized_pnl = (price - position.avg_price) * position.quantity,
     !.unrealized_pnl_pct = IF position.avg_price > 0
                              THEN <<price - position.avg_price, position.avg_price>>
                              ELSE <<0, 1>>,
     !.trading_days_held = days,
     !.can_sell = (days = 2)]

update_price_StaleCanSell(position, price, today) ==
  LET days == count_trading_days(position.entry_date, today) IN
  [position EXCEPT
     !.current_price = price,
     !.unrealized_pnl = (price - position.avg_price) * position.quantity,
     !.unrealized_pnl_pct = IF position.avg_price > 0
                              THEN <<price - position.avg_price, position.avg_price>>
                              ELSE <<0, 1>>,
     !.trading_days_held = days]

update_price(position, price, today) ==
  LET days == count_trading_days(position.entry_date, today) IN
  [position EXCEPT
     !.current_price = price,
     !.unrealized_pnl = (price - position.avg_price) * position.quantity,
     !.unrealized_pnl_pct = IF position.avg_price > 0
                              THEN <<price - position.avg_price, position.avg_price>>
                              ELSE <<0, 1>>,
     !.trading_days_held = days,
     !.can_sell = (days >= 2)]

update_trailing_stop_AnyMove(position) ==
  IF position.current_price # position.peak_price
    THEN [position EXCEPT
            !.peak_price = position.current_price,
            !.trailing_stop_price =
               position.current_price * (PctDen - position.trailing_stop_pct)]
    ELSE position

update_trailing_stop(position) ==
  IF position.current_price > position.peak_price
    THEN [position EXCEPT
            !.peak_price = position.current_price,
            !.trailing_stop_price =
               position.current_price * (PctDen - position.trailing_stop_pct)]
    ELSE position

ExitTests_StopLossFirst(position) ==
  IF position.unrealized_pnl_pct[1] * PctDen
       >= position.take_profit_pct * position.unrealized_pnl_pct[2]
    THEN "TAKE_PROFIT"
  ELSE IF position.unrealized_pnl_pct[1] * PctDen
            <= position.stop_loss_pct * position.unrealized_pnl_pct[2]
    THEN "STOP_LOSS"
  ELSE IF /\ position.has_trailing_stop
          /\ position.current_price * PctDen <= position.trailing_stop_price
    THEN "TRAILING_STOP"
  ELSE NoReason

ExitTests_ExitWhenSettled(position) ==
  IF position.unrealized_pnl_pct[1] * PctDen
       >= position.take_profit_pct * position.unrealized_pnl_pct[2]
    THEN "TAKE_PROFIT"
  ELSE IF /\ position.has_trailing_stop
          /\ position.current_price * PctDen <= position.trailing_stop_price
    THEN "TRAILING_STOP"
  ELSE IF position.unrealized_pnl_pct[1] * PctDen
            <= position.stop_loss_pct * position.unrealized_pnl_pct[2]
    THEN "STOP_LOSS"
  ELSE "SETTLED"

\* the three exit tests of _should_exit, in its order
ExitTests(position) ==
  IF position.unrealized_pnl_pct[1] * PctDen
       >= position.take_profit_pct * position.unrealized_pnl_pct[2]
    THEN "TAKE_PROFIT"
  ELSE IF /\ position.has_trailing_stop
          /\ position.current_price * PctDen <= position.trailing_stop_price
    THEN "TRAILING_STOP"
  ELSE IF position.unrealized_pnl_pct[1] * PctDen
            <= position.stop_loss_pct * position.unrealized_pnl_pct[2]
    THEN "STOP_LOSS"
  ELSE NoReason

_should_exit_NoGate(position) == ExitTests(position)

_should_exit(position) ==
  IF ~position.can_sell THEN NoReason ELSE ExitTests(position)

\* ------------------------------------------------------------------------
\* PositionExitScheduler
\* ------------------------------------------------------------------------
SchedSymbols(ps) == {ps[i].symbol : i \in 1..Len(ps)}

IndexOf(ps, symbol) == CHOOSE i \in 1..Len(ps) : ps[i].symbol = symbol

\* self.positions[position.symbol] = position
add_position(ps, position) ==
  IF position.symbol \in SchedSymbols(ps)
    THEN [ps EXCEPT ![IndexOf(ps, position.symbol)] = position]
    ELSE Append(ps, position)

remove_position(ps, symbol) ==
  SelectSeq(ps, LAMBDA p : p.symbol # symbol)

\* (the loop left at the first callback that raises)
CallbackCalls_StopAtRaise(cbs, failing) ==
  LET all == [i \in 1..Len(cbs) |-> [callback |-> cbs[i], raised |-> cbs[i] \in failing]]
      bad == {i \in 1..Len(cbs) : cbs[i] \in failing}
  IN IF bad = {} THEN all
     ELSE SubSeq(all, 1, CHOOSE i \in bad : \A j \in bad : i <= j)

\* _execute_exit: the callbacks, in registration order; one that raises is
\* logged and the next one still runs
CallbackCalls(cbs, failing) ==
  [i \in 1..Len(cbs) |-> [callback |-> cbs[i], raised |-> cbs[i] \in failing]]

\* One iteration of the loop of check_all_positions on one position:
\* fetch = None when price_fetcher raises, otherwise a tuple whose first
\* element is the price returned.  quote keeps what the fetch gave.
CheckPosition(position, fetch, today, cbs, failing) ==
  IF fetch = None
    THEN [position |-> position, fetched |-> FALSE, exit_reason |-> NoReason,
          calls |-> << >>, removed |-> FALSE, quote |-> fetch]
    ELSE LET updated == update_trailing_stop(update_price(position, fetch[1], today))
             exit_reason == _should_exit(updated)
         IN IF exit_reason # NoReason
              THEN [position |-> [updated EXCEPT !.exit_reason = exit_reason],
                    fetched |-> TRUE, exit_reason |-> exit_reason,
                    calls |-> CallbackCalls(cbs, failing), removed |-> TRUE,
                    quote |-> fetch]
              ELSE [position |-> updated, fetched |-> TRUE,
                    exit_reason |-> NoReason, calls |-> << >>, removed |-> FALSE,
                    quote |-> fetch]

\* a pass that the first exception ends: the positions after it are not polled
PollResults_AbortOnError(ps, fetch, today, cbs, failing) ==
  [i \in 1..Len(ps) |->
     IF \E j \in 1..(i - 1) : fetch[ps[j].symbol] = None
       THEN [CheckPosition(ps[i], None, today, cbs, failing) EXCEPT
               !.quote = fetch[ps[i].symbol]]
       ELSE CheckPosition(ps[i], fetch[ps[i].symbol], today, cbs, failing)]

\* check_all_positions over list(self.positions.items())
PollResults(ps, fetch, today, cbs, failing) ==
  [i \in 1..Len(ps) |-> CheckPosition(ps[i], fetch[ps[i].symbol], today, cbs, failing)]

RECURSIVE Kept_NoRemove(_, _)
Kept_NoRemove(results, i) ==
  IF i > Len(results) THEN << >>
  ELSE <<results[i].position>> \o Kept_NoRemove(results, i + 1)

RECURSIVE Kept(_, _)
Kept(results, i) ==
  IF i > Len(results) THEN << >>
  ELSE IF results[i].removed THEN Kept(results, i + 1)
  ELSE <<results[i].position>> \o Kept(results, i + 1)

PollReport(results) ==
  [i \in 1..Len(results) |->
     [symbol |-> results[i].position.symbol,
      fetched |-> results[i].fetched,
      trading_days_held |-> results[i].position.trading_days_held,
      can_sell |-> results[i].position.can_sell,
      exit_reason |-> results[i].exit_reason,
      calls |-> results[i].calls,
      peak_price |-> results[i].position.peak_price,
      trailing_stop_price |-> results[i].position.trailing_stop_price,
      tracked_after |-> ~results[i].removed,
      quote |-> results[i].quote,
      position |-> results[i].position]]

FetchResults == {None} \cup {<<p>> : p \in PriceTicks}

\* which callbacks raise matters only to a poll in which _execute_exit runs
FailingChoices(ps, fetch, today, cbs) ==
  LET results == PollResults(ps, fetch, today, cbs, {}) IN
  IF \E i \in 1..Len(results) : results[i].removed
    THEN SUBSET {cbs[i] : i \in 1..Len(cbs)}
    ELSE {{}}

\* add_exit_callback(callback); each callback of Callbacks is registered once
AddExitCallback(callback) ==
  /\ \A i \in 1..Len(on_exit_callbacks) : on_exit_callbacks[i] # callback
  /\ on_exit_callbacks' = Append(on_exit_callbacks, callback)
  /\ last_poll' = << >>
  /\ UNCHANGED <<now, sched_positions, loop_vars, broker_vars, coord_vars, learn_vars, last_trade, last_count>>

\* add_position(Position(...)) as the callers build it: entry_date = now,
\* take_profit_pct = 0.15, trailing_stop_pct = 0.05, stop_loss_pct = -0.05 and
\* has_trailing_stop left at its default True
AddPosition(symbol, quantity, avg_price) ==
  /\ sched_positions' =
       add_position(sched_positions,
                    Position(symbol, quantity, avg_price, now, 15, 5, -5, TRUE))
  /\ last_poll' = << >>
  /\ UNCHANGED <<now, on_exit_callbacks, loop_vars, broker_vars, coord_vars, learn_vars, last_trade, last_count>>

RemovePosition(symbol) ==
  /\ sched_positions' = remove_position(sched_positions, symbol)
  /\ last_poll' = << >>
  /\ UNCHANGED <<now, on_exit_callbacks, loop_vars, broker_vars, coord_vars, learn_vars, last_trade, last_count>>

\* one pass of check_all_positions: what it does to the scheduler
check_all_positions(fetch, failing) ==
  LET results == PollResults(sched_positions, fetch, now,
                             on_exit_callbacks, failing)
  IN /\ sched_positions' = Kept(results, 1)
     /\ last_poll' = PollReport(results)

\* await scheduler.check_all_positions(), called directly
CheckAllPositions(fetch, failing) ==
  /\ check_all_positions(fetch, failing)
  /\ UNCHANGED <<now, on_exit_callbacks, loop_vars, broker_vars, coord_vars, learn_vars, last_trade, last_count>>

\* the calendar day advances, up to the day last
Advance(last) ==
  /\ now < last
  /\ now' = now + 1
  /\ last_poll' = << >>
  /\ UNCHANGED <<sched_positions, on_exit_callbacks, loop_vars, broker_vars, coord_vars, learn_vars, last_trade, last_count>>

Tick == Advance(LastDay)

\* the calendar of the settlement examples: 17 January to 6 February 2025
SettleLastDay == Date(SettleEnd)

SettleTick == Advance(SettleLastDay)

\* _mock_price_fetcher, the default price_fetcher.  live is the last close
\* vnstock returns (None when the import or the request fails or the frame is
\* empty), hist is the last close of the symbol's parquet file (None when
\* there is no file or it cannot be read), move is the draw of
\* random.uniform(-0.03, 0.03) in 1/PctDen.  It never raises.  The result is
\* the price returned, tagged with the branch that produced it.
_mock_price_fetcher(ps, symbol, live, hist, move) ==
  IF live # None THEN <<live[1], "vnstock">>
  ELSE IF hist # None THEN <<hist[1], "parquet">>
  ELSE IF symbol \in SchedSymbols(ps)
    THEN <<(ps[IndexOf(ps, symbol)].avg_price * (PctDen + move)) \div PctDen,
           "mock">>
  ELSE <<0, "zero">>

Feeds == [live : LiveQuotes, hist : HistCloses, move : MockMoves]

\* check_all_positions of a scheduler built without price_fetcher
CheckAllPositionsDefault(feed) ==
  /\ check_all_positions(
       [s \in SchedSymbols(sched_positions) |->
          _mock_price_fetcher(sched_positions, s, feed[s].live, feed[s].hist,
                              feed[s].move)], {})
  /\ UNCHANGED <<now, on_exit_callbacks, loop_vars, broker_vars, coord_vars, learn_vars, last_trade, last_count>>

\* ------------------------------------------------------------------------
\* PositionExitScheduler.start / stop: the poll loop
\* ------------------------------------------------------------------------
\* start_task: "none" (start() not called), "while" (at the test of
\* "while self.is_running"), "sleep" (in asyncio.sleep), "returned".
Start ==
  /\ start_task \in {"none", "returned"}
  /\ is_running' = TRUE
  /\ start_task' = "while"
  /\ last_poll' = << >>
  /\ UNCHANGED <<now, sched_positions, on_exit_callbacks, broker_vars, coord_vars, learn_vars, last_trade, last_count>>

Stop ==
  /\ is_running' = FALSE
  /\ last_poll' = << >>
  /\ UNCHANGED <<now, sched_positions, on_exit_callbacks, start_task,
                 broker_vars, coord_vars, learn_vars, last_trade, last_count>>

\* "while self.is_running: try: await self.check_all_positions()", up to the
\* sleep; an exception of the pass is logged and the loop sleeps all the same
LoopCheck(fetch, failing) ==
  /\ start_task = "while"
  /\ is_running
  /\ check_all_positions(fetch, failing)
  /\ start_task' = "sleep"
  /\ UNCHANGED <<now, on_exit_callbacks, is_running, broker_vars, coord_vars, learn_vars, last_trade, last_count>>

\* asyncio.sleep(check_interval) returns
Wake ==
  /\ start_task = "sleep"
  /\ start_task' = "while"
  /\ last_poll' = << >>
  /\ UNCHANGED <<now, sched_positions, on_exit_callbacks, is_running,
                 broker_vars, coord_vars, learn_vars, last_trade, last_count>>

\* (a loop that goes back to sleep without looking at is_running)
LoopReturn_Sleeps ==
  /\ start_task = "while"
  /\ ~is_running
  /\ start_task' = "sleep"
  /\ last_poll' = << >>
  /\ UNCHANGED <<now, sched_positions, on_exit_callbacks, is_running,
                 broker_vars, coord_vars, learn_vars, last_trade, last_count>>

\* the while test finds is_running False: start() returns
LoopReturn ==
  /\ start_task = "while"
  /\ ~is_running
  /\ start_task' = "returned"
  /\ last_poll' = << >>
  /\ UNCHANGED <<now, sched_positions, on_exit_callbacks, is_running,
                 broker_vars, coord_vars, learn_vars, last_trade, last_count>>

\* ------------------------------------------------------------------------
\* AgentCoordinator
\* ------------------------------------------------------------------------
\* What an agent's analyze() gives: an AgentSignal, or an exception (Raised)
Signal(signal_type, confidence) ==
  [raised |-> FALSE, signal_type |-> signal_type, confidence |-> confidence]

Raised == [raised |-> TRUE, signal_type |-> "", confidence |-> 0]

AdvisoryAgents == <<"Alex", "Bull", "Bear">>

signal_scores ==
  [STRONG_BUY |-> 100, BUY |-> 75, HOLD |-> 50, SELL |-> 25, STRONG_SELL |-> 0,
   WATCH |-> 50, MIXED |-> 50]

\* self.parallel_analysis = value
SetParallelAnalysis(value) ==
  /\ parallel_analysis' = value
  /\ UNCHANGED <<discussions, last_round, rounds, messages, last_score, broker_vars,
                 sched_vars, learn_vars, last_trade, last_count>>

\* results[i] is what analyze() of AdvisoryAgents[i] gives.
\* parallel: asyncio.gather(..., return_exceptions=True), an agent that raised
\* has no entry in signals.  sequential: the three calls are awaited one after
\* the other with no try, the first exception leaves the function.
_run_advisory_analysis(results) ==
  IF parallel_analysis
    THEN [raised |-> FALSE,
          signals |->
            [name \in {AdvisoryAgents[i] : i \in {j \in 1..3 : ~results[j].raised}} |->
               results[CHOOSE i \in 1..3 : AdvisoryAgents[i] = name]]]
  ELSE IF \E i \in 1..3 : results[i].raised
    THEN [raised |-> TRUE, signals |-> EmptyDict]
    ELSE [raised |-> FALSE,
          signals |->
            [name \in {AdvisoryAgents[i] : i \in 1..3} |->
               results[CHOOSE i \in 1..3 : AdvisoryAgents[i] = name]]]

\* the advisory agents whose analyze() ran to its return, each of which has
\* emitted its message: in the sequential branch no agent is called after the
\* first one that raised
Emitters(results) ==
  {AdvisoryAgents[i] : i \in {j \in 1..3 :
      /\ ~results[j].raised
      /\ parallel_analysis \/ \A k \in 1..j : ~results[k].raised}}

\* "return await self.risk_doctor.analyze(stock_data, context)": no try, no
\* timeout; what the RiskDoctor raises is raised here
_run_risk_analysis(risk) == risk

RECURSIVE SumOver(_, _)
SumOver(f, S) ==
  IF S = {} THEN 0
  ELSE LET x == CHOOSE y \in S : TRUE IN f[x] + SumOver(f, S \ {x})

\* the least n in lo..hi with n = 1000 or (n + 1/2) / 10 >= 2 * std_dev, where
\* 100 * V / k^2 is the square of 20 * std_dev: round(10 * min(100, 2 * std_dev))
RECURSIVE SpreadSearch(_, _, _, _)
SpreadSearch(lo, hi, k, V) ==
  IF lo >= hi THEN lo
  ELSE LET mid == (lo + hi) \div 2 IN
       IF k * k * (2 * mid + 1) * (2 * mid + 1) >= 100 * V
         THEN SpreadSearch(lo, mid, k, V)
         ELSE SpreadSearch(mid + 1, hi, k, V)

\* (the spread itself, "100 -" left out)
_calculate_consensus_NoComplement(signals) ==
  IF DOMAIN signals = {} THEN 0
  ELSE
    LET k == Cardinality(DOMAIN signals)
        w == [a \in DOMAIN signals |->
                (signal_scores[signals[a].signal_type] * signals[a].confidence)
                  \div 25]
        sq == [a \in DOMAIN signals |-> w[a] * w[a]]
        V == k * SumOver(sq, DOMAIN signals)
               - SumOver(w, DOMAIN signals) * SumOver(w, DOMAIN signals)
    IN SpreadSearch(0, 1000, k, V)

\* consensus_score, in tenths: round(100 - min(100, std_dev * 2), 1).
\* w[a] is 4 x the weighted score of agent a (score * confidence / 100) and
\* V / (16 * k^2) the variance of the weighted scores.
_calculate_consensus(signals) ==
  IF DOMAIN signals = {} THEN 0
  ELSE
    LET k == Cardinality(DOMAIN signals)
        w == [a \in DOMAIN signals |->
                (signal_scores[signals[a].signal_type] * signals[a].confidence)
                  \div 25]
        sq == [a \in DOMAIN signals |-> w[a] * w[a]]
        V == k * SumOver(sq, DOMAIN signals)
               - SumOver(w, DOMAIN signals) * SumOver(w, DOMAIN signals)
    IN 1000 - SpreadSearch(0, 1000, k, V)

_detect_conflict(signals) ==
  LET bullish == {a \in DOMAIN signals :
                    /\ signals[a].signal_type \in {"STRONG_BUY", "BUY"}
                    /\ signals[a].confidence > 60}
      bearish == {a \in DOMAIN signals :
                    /\ signals[a].signal_type \in {"STRONG_SELL", "SELL"}
                    /\ signals[a].confidence > 60}
  IN Cardinality(bullish) >= 1 /\ Cardinality(bearish) >= 1

NoScore == [signals |-> EmptyDict, score |-> 0]

\* coordinator._calculate_consensus(signals), called on its own (once)
CalculateConsensus(signals) ==
  /\ last_score = NoScore
  /\ last_score' = [signals |-> signals, score |-> _calculate_consensus(signals)]
  /\ UNCHANGED <<discussions, last_round, parallel_analysis, rounds, messages,
                 broker_vars, sched_vars, learn_vars, last_trade, last_count>>

\* chief_context['agent_signals']: advisory_signals after
\* "advisory_signals['RiskDoctor'] = risk_signal"
chief_context_AdvisoryOnly(advisory_signals, risk_signal) == advisory_signals

chief_context(advisory_signals, risk_signal) ==
  ("RiskDoctor" :> risk_signal) @@ advisory_signals

\* analyze_stock: results are what the three advisory agents give, risk what
\* the RiskDoctor gives, chief what ChiefAgent.analyze gives.  An exception of
\* the RiskDoctor or of the Chief leaves analyze_stock as it is raised.
\* chief_input is what the Chief was called with (None: it was not called).
analyze_stock(results, risk, chief) ==
  LET advisory == _run_advisory_analysis(results)
      risk_signal == _run_risk_analysis(risk)
  IN IF advisory.raised \/ risk_signal.raised
       THEN [outcome |-> "raised", final_verdict |-> None, discussion |-> None,
             chief_input |-> None]
     ELSE LET signals == chief_context(advisory.signals, risk_signal) IN
       IF chief.raised
         THEN [outcome |-> "raised", final_verdict |-> None,
               discussion |-> None, chief_input |-> <<signals>>]
         ELSE [outcome |-> "returned", final_verdict |-> <<chief>>,
               discussion |->
                 <<[agent_signals |-> signals, final_verdict |-> chief,
                    consensus_score |-> _calculate_consensus(signals),
                    has_conflict |-> _detect_conflict(signals)]>>,
               chief_input |-> <<signals>>]

\* n counts the analyze_stock calls that ended; messages is what the advisory
\* agents' buffers held when the call collected them
NoRound ==
  [n |-> 0, task |-> "", outcome |-> "", results |-> << >>, risk |-> Raised,
   final_verdict |-> None, chief_input |-> None, messages |-> EmptyDict]

Cleared == [a \in {AdvisoryAgents[i] : i \in 1..3} |-> << >>]

\* await coordinator.analyze_stock(stock_data), with no other task on the
\* event loop between its start and its end
AnalyzeStock(results, risk, chief) ==
  /\ last_round.n < MaxRounds
  /\ \A t \in RoundTasks : rounds[t].pc # "gather"
  /\ LET r == analyze_stock(results, risk, chief)
         emitted == [a \in DOMAIN Cleared |->
                       IF a \in Emitters(results) THEN <<"await">> ELSE << >>]
     IN /\ discussions' = discussions \o r.discussion
        /\ messages' = emitted
        /\ last_round' = [n |-> last_round.n + 1, task |-> "await",
                          outcome |-> r.outcome, results |-> results,
                          risk |-> risk, final_verdict |-> r.final_verdict,
                          chief_input |-> r.chief_input, messages |-> emitted]
  /\ UNCHANGED <<parallel_analysis, rounds, last_score, broker_vars, sched_vars,
                 learn_vars, last_trade, last_count>>

\* analyze_stock as a coroutine among others (parallel branch): it runs up to
\* "await asyncio.gather(...)", which has made one task per advisory agent and
\* suspends the caller; the event loop then runs the agent tasks, first
\* started in the order they were made; when all three are done the caller
\* runs on to its return.  The awaits of the RiskDoctor and of the Chief are
\* taken not to suspend.
IdleRound == [pc |-> "idle", symbol |-> "", results |-> << >>]

RoundsInFlight == {t \in RoundTasks : rounds[t].pc = "gather"}

\* a request reaches analyze_stock: clear_messages() on every agent, then
\* the gather
StartRound(t, symbol) ==
  /\ rounds[t].pc = "idle"
  /\ parallel_analysis
  /\ rounds' = [rounds EXCEPT ![t] =
                  [pc |-> "gather", symbol |-> symbol, results |-> << >>]]
  /\ messages' = Cleared
  /\ UNCHANGED <<discussions, last_round, parallel_analysis, last_score, broker_vars,
                 sched_vars, learn_vars, last_trade, last_count>>

\* the event loop runs the next agent task of round t: the agent emits its
\* message and returns its signal, or raises, or suspends for ever
RunAgent(t, result) ==
  /\ rounds[t].pc = "gather"
  /\ Len(rounds[t].results) < 3
  /\ LET name == AdvisoryAgents[Len(rounds[t].results) + 1] IN
       /\ rounds' = [rounds EXCEPT ![t].results = Append(@, result)]
       /\ messages' =
            IF result.raised \/ result = NeverReturns THEN messages
            ELSE [messages EXCEPT ![name] = Append(@, t)]
  /\ UNCHANGED <<discussions, last_round, parallel_analysis, last_score, broker_vars,
                 sched_vars, learn_vars, last_trade, last_count>>

\* the gather is done when every agent task is done
GatherDone(t) ==
  /\ Len(rounds[t].results) = 3
  /\ \A i \in 1..3 : rounds[t].results[i] # NeverReturns

\* the gather of round t is done: analyze_stock runs from line 178 to its end
ResumeRound(t, risk, chief) ==
  /\ rounds[t].pc = "gather"
  /\ GatherDone(t)
  /\ LET r == analyze_stock(rounds[t].results, risk, chief)
     IN /\ discussions' = discussions \o r.discussion
        /\ rounds' = [rounds EXCEPT ![t] =
                        [pc |-> r.outcome, symbol |-> @.symbol, results |-> << >>]]
        /\ last_round' = [n |-> last_round.n + 1, task |-> t,
                          outcome |-> r.outcome, results |-> rounds[t].results,
                          risk |-> risk, final_verdict |-> r.final_verdict,
                          chief_input |-> r.chief_input, messages |-> messages]
  /\ UNCHANGED <<messages, parallel_analysis, last_score, broker_vars, sched_vars,
                 learn_vars, last_trade, last_count>>

\* ------------------------------------------------------------------------
\* AILearningSystem: agent weights
\* ------------------------------------------------------------------------
min_signals_for_evaluation == 10
min_agent_weight == <<1, 10>>
max_agent_weight == <<3, 1>>
weight_adjustment_rate == <<1, 10>>

initial_agent_weights ==
  [Alex |-> <<6, 5>>, Bull |-> <<1, 1>>, Bear |-> <<1, 1>>,
   RiskDoctor |-> <<13, 10>>, Chief |-> <<1, 1>>]

\* "min(1.0, max(0, agent_metrics.sharpe_ratio / 3.0))"
sharpe_score(m) ==
  LET third == FracProd(m.sharpe_ratio, <<1, 3>>) IN
  IF FracLess(third, <<0, 1>>) THEN <<0, 1>>
  ELSE IF FracLess(<<1, 1>>, third) THEN <<1, 1>>
  ELSE third

\* accuracy * 0.4 + sharpe_score * 0.3 + consistency_score * 0.3
performance_score(m) ==
  FracSum(FracProd(m.accuracy, <<4, 10>>),
          FracSum(FracProd(sharpe_score(m), <<3, 10>>),
                  FracProd(m.consistency_score, <<3, 10>>)))

\* 0.5 + (performance_score * 2.5)
target_weight(m) == FracSum(<<1, 2>>, FracProd(performance_score(m), <<5, 2>>))

\* max(min_agent_weight, min(max_agent_weight, new_weight))
Clamp_None(new_weight) == new_weight

Clamp(new_weight) ==
  IF FracLess(max_agent_weight, new_weight)
    THEN max_agent_weight
  ELSE IF FracLess(new_weight, min_agent_weight)
    THEN min_agent_weight
  ELSE new_weight

\* (the weight set to the clamped target at once)
new_weight_Jump(old_weight, m) == Clamp(target_weight(m))

\* old_weight + (target_weight - old_weight) * weight_adjustment_rate, clamped
new_weight(old_weight, m) ==
  LET target == target_weight(m)
      step == FracProd(FracSum(target, <<-old_weight[1], old_weight[2]>>),
                       weight_adjustment_rate)
  IN Clamp(FracSum(old_weight, step))

\* _adjust_agent_weights: every agent of metrics with at least 5 signals has
\* its weight moved; one that has no weight yet starts from 1.0
_adjust_agent_weights(weights, metrics) ==
  LET moved == {a \in DOMAIN metrics : metrics[a].total_signals >= 5} IN
  [a \in DOMAIN weights \cup moved |->
     IF a \in moved
       THEN new_weight(IF a \in DOMAIN weights THEN weights[a] ELSE <<1, 1>>,
                       metrics[a])
       ELSE weights[a]]

\* "self.last_weight_update and (datetime.now() - self.last_weight_update).days < 7"
TooSoon_Never(last, today) == FALSE

TooSoon(last, today) == last # None /\ today - last[1] < 7

total_signals(metrics) ==
  SumOver([a \in DOMAIN metrics |-> metrics[a].total_signals], DOMAIN metrics)

\* _check_and_update_weights, metrics being what update_all_metrics() leaves
\* in the performance tracker
_check_and_update_weights(metrics) ==
  IF TooSoon(last_weight_update, now)
    THEN UNCHANGED <<agent_weights, last_weight_update>>
  ELSE IF total_signals(metrics) < min_signals_for_evaluation
    THEN UNCHANGED <<agent_weights, last_weight_update>>
  ELSE /\ agent_weights' = _adjust_agent_weights(agent_weights, metrics)
       /\ last_weight_update' = <<now>>

\* what a record_outcome call saw: whether the tracker raised, the sum of
\* total_signals it read (0: not read), the day and last_weight_update before
NoRecord == [raised |-> FALSE, total |-> 0, day |-> 0, last |-> None]

\* await learning.record_outcome(...): the tracker's record_outcome may raise
\* (the except clause logs it), otherwise the weights are looked at
RecordOutcome(raises, metrics) ==
  /\ IF raises
       THEN UNCHANGED <<agent_weights, last_weight_update>>
       ELSE _check_and_update_weights(metrics)
  /\ last_record' =
       [raised |-> raises,
        total |-> IF raises \/ TooSoon(last_weight_update, now)
                    THEN 0 ELSE total_signals(metrics),
        day |-> now, last |-> last_weight_update]
  /\ UNCHANGED <<learn_tasks, last_adjust>>
  /\ UNCHANGED <<broker_vars, sched_vars, coord_vars, last_trade, last_count>>

\* ------------------------------------------------------------------------
\* record_outcome as a coroutine on the asyncio event loop
\* ------------------------------------------------------------------------
\* A frame is one call of record_outcome: "idle" (no call), "ready" (the task
\* is created and waits for the event loop), "await_adjust" (suspended in
\* "await self._adjust_agent_weights()", after the test of last_weight_update
\* and before last_weight_update is set), "done".  adjusted, day and
\* overlapped are history: whether the call adjusted the weights, the day it
\* ended, and whether another call was in flight with it.
\* The bodies of record_outcome, _check_and_update_weights and
\* _adjust_agent_weights contain no await of anything that suspends: the
\* tracker and the memory system are called synchronously and _save_state
\* writes synchronously.
_adjust_agent_weights_Suspends == TRUE

_adjust_agent_weights_suspends == FALSE

IdleLearn ==
  [pc |-> "idle", metrics |-> EmptyDict, adjusted |-> FALSE, day |-> 0,
   overlapped |-> FALSE]

LearnInFlight == {t \in LearnTasks : learn_tasks[t].pc \in {"ready", "await_adjust"}}

\* asyncio.create_task(learning.record_outcome(...)): metrics is what the
\* tracker holds after update_all_metrics()
SpawnRecordOutcome(t, metrics) ==
  /\ learn_tasks[t].pc \in {"idle", "done"}
  /\ learn_tasks' =
       [u \in LearnTasks |->
          IF u = t
            THEN [IdleLearn EXCEPT !.pc = "ready", !.metrics = metrics,
                                   !.overlapped = LearnInFlight # {}]
          ELSE IF u \in LearnInFlight
            THEN [learn_tasks[u] EXCEPT !.overlapped = TRUE]
          ELSE learn_tasks[u]]
  /\ UNCHANGED <<agent_weights, last_weight_update, last_record, last_adjust>>
  /\ UNCHANGED <<broker_vars, sched_vars, coord_vars, last_trade, last_count>>

\* the event loop picks task t and runs it up to its next suspension
RunLearnTask(t) ==
  /\ t \in LearnInFlight
  /\ LET f == learn_tasks[t]
         ended(adjusted) ==
           [learn_tasks EXCEPT ![t] =
              [f EXCEPT !.pc = "done", !.adjusted = adjusted, !.day = now]]
     IN IF f.pc = "ready" /\ (\/ TooSoon(last_weight_update, now)
                              \/ total_signals(f.metrics) < min_signals_for_evaluation)
          THEN /\ learn_tasks' = ended(FALSE)
               /\ UNCHANGED <<agent_weights, last_weight_update>>
        ELSE IF f.pc = "ready" /\ _adjust_agent_weights_suspends
          THEN /\ learn_tasks' = [learn_tasks EXCEPT ![t].pc = "await_adjust"]
               /\ UNCHANGED <<agent_weights, last_weight_update>>
        ELSE /\ agent_weights' = _adjust_agent_weights(agent_weights, f.metrics)
             /\ last_weight_update' = <<now>>
             /\ learn_tasks' = ended(TRUE)
  /\ UNCHANGED <<last_record, last_adjust>>
  /\ UNCHANGED <<broker_vars, sched_vars, coord_vars, last_trade, last_count>>

\* ------------------------------------------------------------------------
\* _adjust_agent_weights on one agent
\* ------------------------------------------------------------------------
NoAdjust == [old_weight |-> <<0, 1>>, metrics |-> EmptyDict, weights |-> EmptyDict]

\* _adjust_agent_weights() of a system whose only weight is that of Alex and
\* whose tracker holds the metrics m for Alex (once)
AdjustWeight(old_weight, m) ==
  /\ last_adjust = NoAdjust
  /\ last_adjust' =
       [old_weight |-> old_weight, metrics |-> m,
        weights |-> _adjust_agent_weights([Alex |-> old_weight], [Alex |-> m])]
  /\ UNCHANGED <<agent_weights, last_weight_update, last_record, learn_tasks>>
  /\ UNCHANGED <<broker_vars, sched_vars, coord_vars, last_trade, last_count>>

LearnLastDay == Date(LearnEnd)

LearnTick == Advance(LearnLastDay)

\* ------------------------------------------------------------------------
\* run_autonomous_paper_trading: POST /api/test/trade
\* ------------------------------------------------------------------------
current_price == 265

\* "int(position_value / current_price / 100) * 100", position_value being
\* 12.5% of the broker's cash
test_quantity(cash) ==
  ((cash \div 8) \div (MoneyDen * current_price * 100)) * 100

NoTrade ==
  [symbol |-> "", action |-> "", outcome |-> "", order |-> None,
   tracked |-> FALSE]

\* trigger_test_trade(symbol, action): the order is placed, then the position
\* is handed to the exit scheduler whatever the order's status; a ValueError
\* of place_order is caught by the handler's except clause
TriggerTestTrade(symbol, action) ==
  /\ order_counter < MaxOrders
  /\ LET quantity == test_quantity(cash_balance)
         r == place_order(symbol, "BUY", quantity, <<current_price>>,
                          cash_balance, positions, trade_history,
                          order_counter, market_prices)
     IN IF action = "BUY" /\ quantity > 0
          THEN /\ cash_balance' = r.cash
               /\ positions' = r.positions
               /\ trade_history' = r.trade_history
               /\ order_counter' = IF r.stored THEN order_counter + 1
                                               ELSE order_counter
               /\ orders' = IF r.stored THEN Append(orders, r.order) ELSE orders
               /\ rt' = IF r.stored
                          THEN RoundTripAfter(rt, r.order, cash_balance, positions)
                          ELSE rt
               /\ last_call' =
                    [op |-> "place_order", symbol |-> symbol, side |-> "BUY",
                     quantity |-> quantity, price |-> <<current_price>>,
                     outcome |-> r.outcome, error |-> r.error,
                     order_id |-> IF r.stored THEN order_counter + 1 ELSE 0,
                     cash_before |-> cash_balance]
               /\ sched_positions' =
                    IF r.outcome = "raised" THEN sched_positions
                    ELSE add_position(sched_positions,
                                      Position(symbol, quantity, current_price,
                                               now, 15, 5, -5, TRUE))
               /\ last_trade' =
                    [symbol |-> symbol, action |-> action,
                     outcome |-> IF r.outcome = "raised" THEN "error"
                                                         ELSE "success",
                     order |-> IF r.stored THEN <<r.order>> ELSE None,
                     tracked |-> r.outcome # "raised"]
          ELSE /\ last_trade' =
                    [symbol |-> symbol, action |-> action, outcome |-> "invalid",
                     order |-> None, tracked |-> FALSE]
               /\ UNCHANGED <<cash_balance, order_counter, orders, positions,
                              trade_history, rt, last_call, sched_positions>>
  /\ last_poll' = << >>
  /\ UNCHANGED <<market_prices, tasks, now, on_exit_callbacks, loop_vars,
                 coord_vars, learn_vars, last_count>>

\* ------------------------------------------------------------------------
\* Specification
\* ------------------------------------------------------------------------
Init ==
  /\ cash_balance = initial_balance * MoneyDen
  /\ order_counter = 0
  /\ orders = << >>
  /\ positions = EmptyDict
  /\ trade_history = << >>
  /\ market_prices = EmptyDict
  /\ last_call = NoCall
  /\ rt = NoRoundTrip
  /\ now = FirstDay
  /\ sched_positions = << >>
  /\ on_exit_callbacks = << >>
  /\ last_poll = << >>
  /\ tasks = [t \in Tasks |-> IdleFrame]
  /\ is_running = FALSE
  /\ start_task = "none"
  /\ discussions = << >>
  /\ last_round = NoRound
  /\ parallel_analysis = TRUE
  /\ rounds = [t \in RoundTasks |-> IdleRound]
  /\ messages = Cleared
  /\ last_score = NoScore
  /\ agent_weights = initial_agent_weights
  /\ last_weight_update = None
  /\ last_record = NoRecord
  /\ learn_tasks = [t \in LearnTasks |-> IdleLearn]
  /\ last_adjust = NoAdjust
  /\ last_count = NoCount
  /\ last_trade = NoTrade

NextBroker ==
  \/ \E symbol \in Symbols, side \in Sides, quantity \in Quantities,
        price_arg \in PriceArgs :
       PlaceOrder(symbol, side, quantity, price_arg)
  \/ \E order_id \in 1..MaxOrders : CancelOrder(order_id)
  \/ \E symbol \in QuotedSymbols, last \in LastArgs, reference \in ReferenceArgs :
       SetMarketPrice(symbol, last, reference)
  \/ Reset

\* the scheduler polled through check_all_positions with a price_fetcher that
\* returns (one that raises is polled by the loop of NextLoop)
NextSched ==
  \/ \E callback \in Callbacks : AddExitCallback(callback)
  \/ \E symbol \in Symbols, quantity \in EntryQuantities,
        avg_price \in EntryPrices :
       AddPosition(symbol, quantity, avg_price)
  \/ \E symbol \in Symbols : RemovePosition(symbol)
  \/ \E fetch \in [SchedSymbols(sched_positions) -> FetchResults \ {None}] :
       \E failing \in FailingChoices(sched_positions, fetch, now, on_exit_callbacks) :
         CheckAllPositions(fetch, failing)
  \/ Tick

\* concurrent place_order requests on one account
NextConc ==
  \/ \E t \in Tasks, symbol \in Symbols, side \in Sides,
        quantity \in ConcQuantities, price_arg \in PriceArgs :
       SpawnPlaceOrder(t, symbol, side, quantity, price_arg)
  \/ \E t \in Tasks : RunTask(t)

\* one position built with each setting of its trailing stop, then polled
InitExit ==
  /\ cash_balance = initial_balance * MoneyDen
  /\ order_counter = 0
  /\ orders = << >>
  /\ positions = EmptyDict
  /\ trade_history = << >>
  /\ market_prices = EmptyDict
  /\ last_call = NoCall
  /\ rt = NoRoundTrip
  /\ now = FirstDay
  /\ \E trailing_stop_pct \in TrailingStopPcts, has_trailing_stop \in BOOLEAN :
       sched_positions =
         <<Position("ACB", 100, 1000, FirstDay, 15, trailing_stop_pct, -5,
                    has_trailing_stop)>>
  /\ on_exit_callbacks = << >>
  /\ last_poll = << >>
  /\ tasks = [t \in Tasks |-> IdleFrame]
  /\ is_running = FALSE
  /\ start_task = "none"
  /\ discussions = << >>
  /\ last_round = NoRound
  /\ parallel_analysis = TRUE
  /\ rounds = [t \in RoundTasks |-> IdleRound]
  /\ messages = Cleared
  /\ last_score = NoScore
  /\ agent_weights = initial_agent_weights
  /\ last_weight_update = None
  /\ last_record = NoRecord
  /\ learn_tasks = [t \in LearnTasks |-> IdleLearn]
  /\ last_adjust = NoAdjust
  /\ last_count = NoCount
  /\ last_trade = NoTrade

NextExit ==
  \/ \E fetch \in [SchedSymbols(sched_positions) -> {<<p>> : p \in ExitPriceTicks}] :
       CheckAllPositions(fetch, {})
  \/ Tick

\* a position entered on a day of the settlement calendar, then polled daily
InitSettle ==
  /\ cash_balance = initial_balance * MoneyDen
  /\ order_counter = 0
  /\ orders = << >>
  /\ positions = EmptyDict
  /\ trade_history = << >>
  /\ market_prices = EmptyDict
  /\ last_call = NoCall
  /\ rt = NoRoundTrip
  /\ now \in {Date(d) : d \in EntryDays}
  /\ sched_positions = << >>
  /\ on_exit_callbacks = << >>
  /\ last_poll = << >>
  /\ tasks = [t \in Tasks |-> IdleFrame]
  /\ is_running = FALSE
  /\ start_task = "none"
  /\ discussions = << >>
  /\ last_round = NoRound
  /\ parallel_analysis = TRUE
  /\ rounds = [t \in RoundTasks |-> IdleRound]
  /\ messages = Cleared
  /\ last_score = NoScore
  /\ agent_weights = initial_agent_weights
  /\ last_weight_update = None
  /\ last_record = NoRecord
  /\ learn_tasks = [t \in LearnTasks |-> IdleLearn]
  /\ last_adjust = NoAdjust
  /\ last_count = NoCount
  /\ last_trade = NoTrade

NextSettle ==
  \/ \E avg_price \in EntryPrices :
       sched_positions = << >> /\ AddPosition("ACB", 100, avg_price)
  \/ \E fetch \in [SchedSymbols(sched_positions) -> {<<p>> : p \in EntryPrices}] :
       CheckAllPositions(fetch, {})
  \/ SettleTick

\* the same with a price that moves by 2 %, within every exit threshold
NextSettlePoll ==
  \/ \E avg_price \in EntryPrices :
       sched_positions = << >> /\ AddPosition("ACB", 100, avg_price)
  \/ \E fetch \in [SchedSymbols(sched_positions) -> {<<p>> : p \in SettlePrices}] :
       CheckAllPositions(fetch, {})
  \/ SettleTick

\* a scheduler built without price_fetcher
NextFetch ==
  \/ \E symbol \in Symbols, quantity \in EntryQuantities,
        avg_price \in EntryPrices :
       AddPosition(symbol, quantity, avg_price)
  \/ \E feed \in [SchedSymbols(sched_positions) -> Feeds] :
       CheckAllPositionsDefault(feed)
  \/ Tick

\* the poll loop of start(), stopped by stop()
NextLoop ==
  \/ Start
  \/ Stop
  \/ \E fetch \in [SchedSymbols(sched_positions) -> FetchResults] :
       \E failing \in FailingChoices(sched_positions, fetch, now, on_exit_callbacks) :
         LoopCheck(fetch, failing)
  \/ Wake
  \/ LoopReturn
  \/ \E symbol \in Symbols, quantity \in EntryQuantities,
        avg_price \in EntryPrices :
       AddPosition(symbol, quantity, avg_price)
  \/ Tick

NextCount ==
  \E start_date \in CountDates, end_date \in CountDates :
    /\ end_date - start_date <= MaxSpan
    /\ CountTradingDays(start_date, end_date)

NextCoord ==
  \/ \E results \in [1..3 -> AdvisoryResults], risk \in RiskResults,
        chief \in ChiefResults :
       AnalyzeStock(results, risk, chief)
  \/ \E value \in BOOLEAN : SetParallelAnalysis(value)

\* _calculate_consensus over the dicts a round can hand to it
NextConsensus == \E signals \in SignalDicts : CalculateConsensus(signals)

\* concurrent analyze_stock requests on one coordinator
NextRounds ==
  \/ \E t \in RoundTasks, symbol \in Symbols : StartRound(t, symbol)
  \/ \E t \in RoundTasks, result \in RoundResults : RunAgent(t, result)
  \/ \E t \in RoundTasks, risk \in RiskResults, chief \in ChiefResults :
       ResumeRound(t, risk, chief)

\* outcomes recorded with the learning system over the days up to LearnEnd
NextLearn ==
  \/ \E metrics \in [MetricAgents -> MetricsSet] : RecordOutcome(FALSE, metrics)
  \/ RecordOutcome(TRUE, EmptyDict)
  \/ LearnTick

\* test trades on an account of TradeFunds times initial_balance
\* overlapping record_outcome calls
NextLearnConc ==
  \/ \E t \in LearnTasks, tag \in ConcMetricTags :
       SpawnRecordOutcome(t,
         [a \in MetricAgents |-> CHOOSE m \in MetricsSet : m.tag = tag])
  \/ \E t \in LearnTasks : RunLearnTask(t)
  \/ LearnTick

NextAdjust ==
  \E old_weight \in AdjustOldWeights, m \in AdjustMetrics :
    AdjustWeight(old_weight, m)

InitTrade ==
  /\ cash_balance = ((TradeFunds[1] * initial_balance) \div TradeFunds[2]) * MoneyDen
  /\ order_counter = 0
  /\ orders = << >>
  /\ positions = EmptyDict
  /\ trade_history = << >>
  /\ market_prices = EmptyDict
  /\ last_call = NoCall
  /\ rt = NoRoundTrip
  /\ now = FirstDay
  /\ sched_positions = << >>
  /\ on_exit_callbacks = << >>
  /\ last_poll = << >>
  /\ tasks = [t \in Tasks |-> IdleFrame]
  /\ is_running = FALSE
  /\ start_task = "none"
  /\ discussions = << >>
  /\ last_round = NoRound
  /\ parallel_analysis = TRUE
  /\ rounds = [t \in RoundTasks |-> IdleRound]
  /\ messages = Cleared
  /\ last_score = NoScore
  /\ agent_weights = initial_agent_weights
  /\ last_weight_update = None
  /\ last_record = NoRecord
  /\ learn_tasks = [t \in LearnTasks |-> IdleLearn]
  /\ last_adjust = NoAdjust
  /\ last_count = NoCount
  /\ last_trade = NoTrade

NextTrade ==
  \/ \E symbol \in Symbols, action \in TradeActions :
       TriggerTestTrade(symbol, action)
  \/ \E symbol \in QuotedSymbols, last \in LastArgs, reference \in ReferenceArgs :
       SetMarketPrice(symbol, last, reference)
  \/ \E symbol \in Symbols : RemovePosition(symbol)
  \/ \E fetch \in [SchedSymbols(sched_positions) -> {<<p>> : p \in LastArgs}] :
       CheckAllPositions(fetch, {})
  \/ Tick

Next ==
  \/ NextBroker
  \/ NextConc
  \/ NextSched
  \/ \E feed \in [SchedSymbols(sched_positions) -> Feeds] :
       CheckAllPositionsDefault(feed)
  \/ NextLoop
  \/ NextCoord
  \/ NextConsensus
  \/ NextRounds
  \/ NextLearn
  \/ NextTrade
  \/ NextCount
  \/ NextSettlePoll
  \/ NextLearnConc
  \/ NextAdjust

Spec == Init /\ [][Next]_vars

SpecBroker == Init /\ [][NextBroker]_vars

SpecSched == Init /\ [][NextSched]_vars

SpecConc == Init /\ [][NextConc]_vars

SpecExit == InitExit /\ [][NextExit]_vars

SpecSettle == InitSettle /\ [][NextSettle]_vars

SpecSettlePoll == InitSettle /\ [][NextSettlePoll]_vars

SpecFetch == Init /\ [][NextFetch]_vars

SpecLoop == Init /\ [][NextLoop]_vars

\* the event loop is fair to the task of start(): a sleep that is over is
\* left, and the while test is made
SpecLoopFair == SpecLoop /\ WF_vars(Wake) /\ WF_vars(LoopReturn)

SpecCoord == Init /\ [][NextCoord]_vars

SpecCount == Init /\ [][NextCount]_vars

SpecConsensus == Init /\ [][NextConsensus]_vars

SpecRounds == Init /\ [][NextRounds]_vars

SpecLearn == Init /\ [][NextLearn]_vars

SpecLearnConc == Init /\ [][NextLearnConc]_vars

SpecAdjust == Init /\ [][NextAdjust]_vars

SpecTrade == InitTrade /\ [][NextTrade]_vars

\* the notional of a fill times a rate, in 1/MoneyDen
Fee(order, rate) ==
  order.filled_quantity * order.filled_price * rate[1] * (MoneyDen \div rate[2])

\* C32: every filled order carries commission = filled notional x
\* COMMISSION_RATE, and tax = filled notional x SELLING_TAX when it is a SELL
\* and 0 when it is a BUY; the trade it left in the history carries the same.
C32_FeesOnFill ==
  /\ \A i \in 1..Len(orders) :
       orders[i].status = "FILLED" =>
         /\ orders[i].commission = Fee(orders[i], COMMISSION_RATE)
         /\ orders[i].tax = IF orders[i].side = "SELL"
                              THEN Fee(orders[i], SELLING_TAX) ELSE 0
  /\ \A k \in 1..Len(trade_history) :
       \E i \in 1..Len(orders) :
         /\ orders[i].order_id = trade_history[k].order_id
         /\ orders[i].status = "FILLED"
         /\ trade_history[k].commission = orders[i].commission
         /\ trade_history[k].tax = orders[i].tax

\* C33: a SELL that fills for the whole quantity held removes the position,
\* and the realized P&L the ledger reports after it is what it reported
\* before plus net proceeds - cost basis of the sale.
C33_FullSellRealizesPnl ==
  [][\A symbol \in DOMAIN positions :
       (/\ order_counter' = order_counter + 1
        /\ orders'[order_counter'].symbol = symbol
        /\ orders'[order_counter'].side = "SELL"
        /\ orders'[order_counter'].status = "FILLED"
        /\ orders'[order_counter'].filled_quantity = positions[symbol].quantity) =>
         /\ symbol \notin DOMAIN positions'
         /\ total_realized(positions') =
              FracSum(total_realized(positions),
                      realized_pnl(positions[symbol], orders'[order_counter'],
                                   orders'[order_counter'].filled_price))]_vars

\* a filled BUY and a filled SELL, both with a commission, the SELL taxed
C32_Witness ==
  \E i, j \in 1..Len(orders) :
    /\ orders[i].status = "FILLED" /\ orders[i].side = "BUY"
    /\ orders[i].commission > 0 /\ orders[i].tax = 0
    /\ orders[j].status = "FILLED" /\ orders[j].side = "SELL"
    /\ orders[j].commission > 0 /\ orders[j].tax > 0

\* ------------------------------------------------------------------------
\* Properties of the scheduler
\* ------------------------------------------------------------------------
TrackedPosition(symbol) == sched_positions[IndexOf(sched_positions, symbol)]

\* C1: on every poll, a position whose trading_days_held < 2 (can_sell false)
\* triggers no exit: no exit reason, no exit callback is called and the
\* position stays tracked, whatever the fetched price is.
C1_NoExitBeforeSettlement ==
  \A i \in 1..Len(last_poll) :
    (last_poll[i].trading_days_held < 2 \/ ~last_poll[i].can_sell) =>
      /\ last_poll[i].exit_reason = NoReason
      /\ last_poll[i].calls = << >>
      /\ last_poll[i].tracked_after
      /\ last_poll[i].symbol \in SchedSymbols(sched_positions)

\* a poll that priced two unsettled positions, one past its take-profit and
\* one under its trailing stop and its stop loss, with a callback registered
C1_Witness ==
  /\ Len(on_exit_callbacks) > 0
  /\ \E i, j \in 1..Len(last_poll) :
       /\ last_poll[i].fetched /\ last_poll[i].trading_days_held < 2
       /\ last_poll[j].fetched /\ last_poll[j].trading_days_held < 2
       /\ last_poll[i].symbol \in SchedSymbols(sched_positions)
       /\ last_poll[j].symbol \in SchedSymbols(sched_positions)
       /\ ExitTests(TrackedPosition(last_poll[i].symbol)) = "TAKE_PROFIT"
       /\ ExitTests(TrackedPosition(last_poll[j].symbol)) = "TRAILING_STOP"
       /\ LET p == TrackedPosition(last_poll[j].symbol)
          IN p.unrealized_pnl_pct[1] * PctDen
               <= p.stop_loss_pct * p.unrealized_pnl_pct[2]

\* C2: on every tick (update_price then update_trailing_stop) of a position,
\* trailing_stop_price and peak_price do not decrease.  last_poll'[i] reports
\* the i-th position of the list the poll iterated over.
C2_TrailingStopNeverDecreases ==
  [][sched_vars' # sched_vars =>
     \A i \in 1..Len(last_poll') :
       /\ sched_positions[i].symbol = last_poll'[i].symbol
       /\ sched_positions[i].trailing_stop_price <= last_poll'[i].trailing_stop_price
       /\ sched_positions[i].peak_price <= last_poll'[i].peak_price]_vars

\* a position whose stop was ratcheted up and whose price then fell back
C2_Witness ==
  \E i \in 1..Len(sched_positions) :
    LET p == sched_positions[i] IN
    /\ p.peak_price > p.avg_price
    /\ p.current_price < p.peak_price
    /\ p.trailing_stop_price = p.peak_price * (PctDen - p.trailing_stop_pct)
    /\ p.trailing_stop_price > p.avg_price * (PctDen - p.trailing_stop_pct)
    /\ \E j \in 1..Len(last_poll) :
         last_poll[j].symbol = p.symbol /\ last_poll[j].fetched

\* ------------------------------------------------------------------------
\* Properties of the broker
\* ------------------------------------------------------------------------
LastOrder == orders[last_call.order_id]

PlacedOrder == last_call.op = "place_order" /\ last_call.outcome = "returned"

WithinBand(price, ref_price) ==
  ~AboveCeiling(price, ref_price) /\ ~BelowFloor(price, ref_price)

\* C3: the cash balance is never negative after any sequence of place_order
\* calls (a BUY that cash cannot pay is rejected before any mutation).
C3_CashNeverNegative == cash_balance >= 0

\* C4: a SELL for more shares than held, or for a symbol without position,
\* returns a REJECTED order and leaves cash, positions and trade history
\* unchanged; no position quantity is ever negative.
C4_OversellRejected ==
  [][( /\ last_call'.op = "place_order"
       /\ last_call'.side = "SELL"
       /\ (last_call' # last_call \/ orders' # orders)
       /\ InsufficientPosition(positions, last_call'.symbol, last_call'.quantity) )
     => /\ last_call'.outcome = "returned"
        /\ orders'[last_call'.order_id].status = "REJECTED"
        /\ UNCHANGED <<cash_balance, positions, trade_history>>
        /\ \A s \in DOMAIN positions' : positions'[s].quantity >= 0]_vars

\* C5: a place_order call whose quantity is not a multiple of the lot size
\* results in a REJECTED order with filled quantity 0 and no change of cash;
\* no order with such a quantity is ever FILLED or PARTIAL.
C5_BadLotRejected ==
  /\ (last_call.op = "place_order" /\ LotSizeError(last_call.quantity)) =>
       /\ last_call.outcome = "returned"
       /\ LastOrder.status = "REJECTED"
       /\ LastOrder.filled_quantity = 0
       /\ cash_balance = last_call.cash_before
  /\ \A i \in DOMAIN orders :
       LotSizeError(orders[i].quantity) =>
         orders[i].status \notin {"FILLED", "PARTIAL"}

\* C6: place_order never raises past its caller: it returns an order, and an
\* order it did not fill is REJECTED and carries a reject reason.
C6_NeverRaises ==
  last_call.op = "place_order" =>
    /\ last_call.outcome # "raised"
    /\ LastOrder.status # "FILLED" =>
         (LastOrder.status = "REJECTED" /\ LastOrder.reject_reason # "")

\* C7: an order that is not REJECTED has floor <= price <= ceiling around the
\* reference price, for its price and for the price at which it is filled.
C7_OrderWithinBand ==
  (PlacedOrder /\ LastOrder.status # "REJECTED") =>
    LET ref_price == get_market_price(market_prices, LastOrder.symbol).reference
    IN /\ WithinBand(LastOrder.price, ref_price)
       /\ LastOrder.status = "FILLED" => WithinBand(LastOrder.filled_price, ref_price)

\* C8: for every FILLED BUY, cash_after = cash_before - quantity x price x
\* (1 + commission_rate + slippage), price being the order's price (the
\* broker has no slippage term: slippage = 0).
C8_BuyDebitsOrderPrice ==
  (PlacedOrder /\ LastOrder.side = "BUY" /\ LastOrder.status = "FILLED") =>
    cash_balance =
      last_call.cash_before
        - LastOrder.quantity * LastOrder.price * (MoneyDen + COMMISSION_RATE[1])

AllowedTransitions ==
  {<<"PENDING", "REJECTED">>, <<"PENDING", "QUEUED">>,
   <<"QUEUED", "FILLED">>, <<"QUEUED", "CANCELLED">>}

C10_Original ==
  \A i \in DOMAIN orders :
    /\ orders[i].status_log[1] = "PENDING"
    /\ \A k \in 1..(Len(orders[i].status_log) - 1) :
         <<orders[i].status_log[k], orders[i].status_log[k + 1]>>
           \in AllowedTransitions

\* C10, amended: an order goes PENDING -> REJECTED or PENDING -> FILLED (the
\* fill is immediate, QUEUED and CANCELLED are never taken), and a REJECTED
\* or FILLED order never changes status again, cancel_order included.
C10_ImmediateFillTerminal ==
  \A i \in DOMAIN orders :
    orders[i].status_log \in {<<"PENDING", "REJECTED">>, <<"PENDING", "FILLED">>}

\* cancel_order was just refused on a stored order, with a FILLED and a
\* REJECTED order on the books
C10_Witness ==
  /\ last_call.op = "cancel_order"
  /\ last_call.outcome = "False"
  /\ last_call.order_id \in DOMAIN orders
  /\ \E i, j \in DOMAIN orders :
       orders[i].status = "FILLED" /\ orders[j].status = "REJECTED"

\* ------------------------------------------------------------------------
\* Concurrent place_order calls
\* ------------------------------------------------------------------------
\* C11: concurrent place_order calls on one account are serialized: no call
\* is ever suspended between its validation and its ledger mutation, each
\* call that the event loop runs has the effect of one whole place_order on
\* the ledger it finds, and at most one order per symbol is active (stored
\* or held by a call in progress) at any time.
C11_Serialized ==
  /\ [](/\ \A t \in Tasks : tasks[t].pc \in {"idle", "ready"}
        /\ \A symbol \in Symbols :
             Cardinality({i \in DOMAIN orders :
                            orders[i].symbol = symbol /\ is_active(orders[i])})
               + Cardinality({t \in Tasks :
                                /\ tasks[t].order # None
                                /\ tasks[t].symbol = symbol}) <= 1)
  /\ [][\A t \in Tasks :
          (tasks[t].pc = "ready" /\ tasks'[t].pc # "ready") =>
            LET f == tasks[t]
                r == place_order(f.symbol, f.side, f.quantity, f.price,
                                 cash_balance, positions, trade_history,
                                 order_counter, market_prices)
            IN /\ tasks'[t].pc = "idle"
               /\ cash_balance' = r.cash
               /\ positions' = r.positions
               /\ trade_history' = r.trade_history
               /\ orders' = IF r.stored THEN Append(orders, r.order) ELSE orders
               /\ \A u \in Tasks \ {t} : tasks'[u].pc = tasks[u].pc]_vars

\* two BUY calls for one symbol were in flight together: one has been filled
\* while the other was waiting for the event loop
C11_Witness ==
  \E t \in Tasks :
    /\ tasks[t].pc = "ready" /\ tasks[t].overlapped
    /\ tasks[t].side = "BUY"
    /\ PlacedOrder /\ LastOrder.status = "FILLED" /\ LastOrder.side = "BUY"
    /\ LastOrder.symbol = tasks[t].symbol

\* ------------------------------------------------------------------------
\* Exit decision
\* ------------------------------------------------------------------------
TakeProfitHit(p) ==
  p.unrealized_pnl_pct[1] * PctDen >= p.take_profit_pct * p.unrealized_pnl_pct[2]

TrailingStopHit(p) == p.current_price * PctDen <= p.trailing_stop_price

StopLossHit(p) ==
  p.unrealized_pnl_pct[1] * PctDen <= p.stop_loss_pct * p.unrealized_pnl_pct[2]

\* C12, as stated: for a settlement-eligible position on a poll the exit
\* reason is TAKE_PROFIT if unrealized_pct >= take_profit_pct; otherwise
\* TRAILING_STOP if current_price <= trailing_stop_price; otherwise STOP_LOSS
\* if unrealized_pct <= stop_loss_pct; otherwise no exit.
C12_Original ==
  \A i \in 1..Len(last_poll) :
    (last_poll[i].fetched /\ last_poll[i].can_sell) =>
      LET p == last_poll[i].position IN
      last_poll[i].exit_reason =
        IF TakeProfitHit(p) THEN "TAKE_PROFIT"
        ELSE IF TrailingStopHit(p) THEN "TRAILING_STOP"
        ELSE IF StopLossHit(p) THEN "STOP_LOSS"
        ELSE NoReason

\* C12, amended: the same priority, the trailing-stop test being made only
\* for a position whose has_trailing_stop is true (the default); a position
\* built with has_trailing_stop false goes from the take-profit test to the
\* stop-loss test.
C12_PriorityOrder ==
  \A i \in 1..Len(last_poll) :
    (last_poll[i].fetched /\ last_poll[i].can_sell) =>
      LET p == last_poll[i].position IN
      last_poll[i].exit_reason =
        IF TakeProfitHit(p) THEN "TAKE_PROFIT"
        ELSE IF p.has_trailing_stop /\ TrailingStopHit(p) THEN "TRAILING_STOP"
        ELSE IF StopLossHit(p) THEN "STOP_LOSS"
        ELSE NoReason

\* a settled position with its trailing stop on, above the stop and under
\* the stop loss: the third test decided
C12_Witness ==
  \E i \in 1..Len(last_poll) :
    /\ last_poll[i].fetched /\ last_poll[i].can_sell
    /\ last_poll[i].position.has_trailing_stop
    /\ ~TrailingStopHit(last_poll[i].position)
    /\ last_poll[i].exit_reason = "STOP_LOSS"

\* C13: in one poll cycle a position whose exit trigger fires is exited once
\* (each registered exit callback is called once for it, in order, and it is
\* removed from monitoring) and no callback is called for the others, which
\* stay tracked; every position is polled once per cycle; a tracked position
\* has never exited, so a position is exited at most once.
C13_ExitOncePerPosition ==
  /\ \A i \in 1..Len(sched_positions) : sched_positions[i].exit_reason = NoReason
  /\ \A i, j \in 1..Len(last_poll) :
       last_poll[i].symbol = last_poll[j].symbol => i = j
  /\ \A i \in 1..Len(last_poll) :
       IF last_poll[i].exit_reason # NoReason
         THEN /\ ~last_poll[i].tracked_after
              /\ last_poll[i].symbol \notin SchedSymbols(sched_positions)
              /\ Len(last_poll[i].calls) = Len(on_exit_callbacks)
              /\ \A k \in 1..Len(on_exit_callbacks) :
                   last_poll[i].calls[k].callback = on_exit_callbacks[k]
         ELSE /\ last_poll[i].calls = << >>
              /\ last_poll[i].tracked_after
              /\ last_poll[i].symbol \in SchedSymbols(sched_positions)

\* a poll of two positions with a callback registered: one exited, the
\* other did not
C13_Witness ==
  /\ Len(on_exit_callbacks) >= 1
  /\ \E i, j \in 1..Len(last_poll) :
       /\ last_poll[i].exit_reason # NoReason
       /\ Len(last_poll[i].calls) >= 1
       /\ last_poll[j].fetched /\ last_poll[j].exit_reason = NoReason

\* C14: a settlement-eligible position for which none of take-profit,
\* trailing-stop and stop-loss is satisfied is not exited by a poll: it
\* stays tracked, as the poll priced it.
C14_SettlementAloneNeverExits ==
  \A i \in 1..Len(last_poll) :
    LET p == last_poll[i].position IN
    ( /\ last_poll[i].fetched /\ last_poll[i].can_sell
      /\ ~TakeProfitHit(p) /\ ~TrailingStopHit(p) /\ ~StopLossHit(p) )
    => /\ last_poll[i].exit_reason = NoReason
       /\ last_poll[i].calls = << >>
       /\ last_poll[i].tracked_after
       /\ last_poll[i].symbol \in SchedSymbols(sched_positions)
       /\ TrackedPosition(last_poll[i].symbol) = p

\* a settled position polled at its entry price, still tracked
C14_Witness ==
  \E i \in 1..Len(last_poll) :
    /\ last_poll[i].fetched /\ last_poll[i].can_sell
    /\ last_poll[i].trading_days_held >= 2
    /\ last_poll[i].position.current_price = last_poll[i].position.avg_price
    /\ last_poll[i].symbol \in SchedSymbols(sched_positions)

\* C15: in every state of every Position (tracked, or just exited by the
\* poll), can_sell = (trading_days_held >= 2).
C15_CanSellIffTwoDays ==
  /\ \A i \in 1..Len(sched_positions) :
       sched_positions[i].can_sell = (sched_positions[i].trading_days_held >= 2)
  /\ \A i \in 1..Len(last_poll) :
       last_poll[i].position.can_sell
         = (last_poll[i].position.trading_days_held >= 2)

\* a tracked position that a poll found settled, next to an unsettled one
C15_Witness ==
  \E i, j \in 1..Len(sched_positions) :
    /\ sched_positions[i].can_sell /\ sched_positions[i].trading_days_held >= 2
    /\ ~sched_positions[j].can_sell /\ sched_positions[j].trading_days_held = 1

\* ------------------------------------------------------------------------
\* Settlement calendar
\* ------------------------------------------------------------------------
IsTradingDay(d) == weekday(d) < 5 /\ d \notin VN_HOLIDAY_DATES

\* the trading days after the day of purchase, up to day d
TradingDaysAfter(entry_date, d) ==
  Cardinality({x \in (entry_date + 1)..d : IsTradingDay(x)})

\* C16: a position is sellable (can_sell) only from the second trading day
\* after its purchase, weekends and declared holidays not counted: bought on
\* Monday 20 January not before Wednesday 22, bought on Friday 17 January not
\* before Tuesday 21, bought on Monday 27 January (before the Tet holidays)
\* not before the second trading day after them, Wednesday 5 February.
C16_SellableAfterTwoTradingDays ==
  \A i \in 1..Len(last_poll) :
    (last_poll[i].fetched /\ last_poll[i].can_sell) =>
      TradingDaysAfter(last_poll[i].position.entry_date, now) >= 2

\* C17: a position entered on a Friday and polled on the following Sunday
\* has trading_days_held = 0.
C17_FridayToSundayIsZero ==
  \A i \in 1..Len(last_poll) :
    ( /\ last_poll[i].fetched
      /\ weekday(last_poll[i].position.entry_date) = 4
      /\ now = last_poll[i].position.entry_date + 2 )
    => last_poll[i].trading_days_held = 0

\* ------------------------------------------------------------------------
\* Failures of the poll
\* ------------------------------------------------------------------------
Fabricated(quote) == quote # None /\ quote[2] \in {"mock", "zero"}

\* C18: on a poll of a scheduler with the default price fetcher, a position
\* for which neither a live quote nor a historical close is available is
\* skipped: its current_price, unrealized P&L, peak_price and
\* trailing_stop_price are unchanged, it is not exited and stays tracked; no
\* fabricated price is applied.  last_poll'[i] reports the i-th position of
\* the list the poll iterated over.
C18_NoFabricatedPrice ==
  [][sched_vars' # sched_vars =>
     \A i \in 1..Len(last_poll') :
       Fabricated(last_poll'[i].quote) =>
         /\ last_poll'[i].exit_reason = NoReason
         /\ last_poll'[i].tracked_after
         /\ last_poll'[i].position.current_price = sched_positions[i].current_price
         /\ last_poll'[i].position.unrealized_pnl = sched_positions[i].unrealized_pnl
         /\ last_poll'[i].position.unrealized_pnl_pct
              = sched_positions[i].unrealized_pnl_pct
         /\ last_poll'[i].position.peak_price = sched_positions[i].peak_price
         /\ last_poll'[i].position.trailing_stop_price
              = sched_positions[i].trailing_stop_price]_vars

\* C19: in a pass of the poll loop every tracked position whose price fetch
\* returns is priced with what it returned, whether or not the fetch of
\* another position raised in the same pass, and after the pass the loop is
\* in its sleep with is_running still true, from where the next pass follows.
C19_OneFailureDoesNotHaltPoll ==
  /\ \A i \in 1..Len(last_poll) :
       last_poll[i].quote # None =>
         /\ last_poll[i].fetched
         /\ last_poll[i].position.current_price = last_poll[i].quote[1]
  /\ last_poll # << >> => (start_task = "sleep" /\ is_running)

\* a pass in which the fetch of the first position raised and the second
\* position was priced, the loop being asleep before its next pass
C19_Witness ==
  /\ start_task = "sleep" /\ is_running
  /\ \E i, j \in 1..Len(last_poll) :
       /\ i < j
       /\ last_poll[i].quote = None /\ ~last_poll[i].fetched
       /\ last_poll[j].quote # None /\ last_poll[j].fetched
       /\ last_poll[j].position.current_price = last_poll[j].quote[1]
       /\ last_poll[j].position.current_price # last_poll[j].position.avg_price

\* C31: once stop() has set is_running to False no pass of the poll loop
\* begins (the while test that finds it False leaves the loop), and the
\* start() call in progress returns.
C31_StopEndsLoop ==
  /\ [][~is_running => last_poll' = << >>]_vars
  /\ [][(start_task = "while" /\ ~is_running) => start_task' # "sleep"]_vars
  /\ (start_task \in {"while", "sleep"} /\ ~is_running) ~> (start_task = "returned")

\* start() has returned after a stop(), positions still being tracked
C31_Witness ==
  /\ start_task = "returned"
  /\ ~is_running
  /\ sched_positions # << >>

\* ------------------------------------------------------------------------
\* Properties of the coordinator
\* ------------------------------------------------------------------------
\* C20: a round in which the RiskDoctor analysis raises ends with a verdict
\* whose action is HOLD, whatever the advisory agents gave.
C20_RiskFailureHolds ==
  (last_round.outcome # "" /\ last_round.risk.raised) =>
    /\ last_round.outcome = "returned"
    /\ last_round.final_verdict # None
    /\ last_round.final_verdict[1].signal_type = "HOLD"

\* the advisory agents (as indices of AdvisoryAgents) that raised in the last
\* analyze_stock call
RaisedAdvisory ==
  {i \in 1..Len(last_round.results) : last_round.results[i].raised}

\* C21: a round in which exactly one advisory agent raises, the RiskDoctor
\* returning its signal, ends with a verdict made from signals in which the
\* failing agent is absent and the two other advisory agents are present, in
\* the parallel branch and in the sequential branch alike.
C21_OneAdvisoryFailureTolerated ==
  (/\ last_round.task = "await"
   /\ Cardinality(RaisedAdvisory) = 1
   /\ ~last_round.risk.raised) =>
    /\ last_round.outcome = "returned"
    /\ last_round.final_verdict # None
    /\ DOMAIN last_round.chief_input[1] =
         {"RiskDoctor"} \cup {AdvisoryAgents[i] : i \in (1..3) \ RaisedAdvisory}

\* C22: a round all of whose advisory agent tasks have been started can run
\* on to its verdict, also when one of them never returns (the call that
\* stays suspended being given up after its timeout).
C22_HungAgentAbandoned ==
  \A t \in RoundTasks :
    (rounds[t].pc = "gather" /\ Len(rounds[t].results) = 3) =>
      \E risk \in RiskResults, chief \in ChiefResults :
        ENABLED ResumeRound(t, risk, chief)

Bullish(signal) ==
  signal.signal_type \in {"STRONG_BUY", "BUY"} /\ signal.confidence > 60

Bearish(signal) ==
  signal.signal_type \in {"STRONG_SELL", "SELL"} /\ signal.confidence > 60

\* C24: has_conflict of a round is true exactly when one of its advisory
\* agents (Alex, Bull, Bear) is bullish with confidence above 60 and one of
\* them is bearish with confidence above 60.
C24_ConflictIffAdvisoryOppose ==
  \A i \in 1..Len(discussions) :
    LET signals == discussions[i].agent_signals
        advisory == DOMAIN signals \ {"RiskDoctor"}
    IN discussions[i].has_conflict <=>
         /\ \E a \in advisory : Bullish(signals[a])
         /\ \E b \in advisory : Bearish(signals[b])

\* 100 x the weighted score of a signal (score * confidence / 100)
WeightedScore(signal) == signal_scores[signal.signal_type] * signal.confidence

Gap(signals, a, b) ==
  IF WeightedScore(signals[a]) >= WeightedScore(signals[b])
    THEN WeightedScore(signals[a]) - WeightedScore(signals[b])
    ELSE WeightedScore(signals[b]) - WeightedScore(signals[a])

\* the same agents, every two of them at least as far from each other
FurtherApart(signals, other) ==
  /\ DOMAIN other = DOMAIN signals
  /\ \A a, b \in DOMAIN signals : Gap(other, a, b) >= Gap(signals, a, b)

AllIdentical(signals) ==
  \A a, b \in DOMAIN signals :
    WeightedScore(signals[a]) = WeightedScore(signals[b])

\* C25: the consensus score of the signals of a round lies in [0, 100], is 100
\* when all agents have the same weighted score, and is not exceeded by the
\* score of any signals of the same agents that lie further apart.
C25_AgreementScore ==
  last_score # NoScore =>
    /\ last_score.score >= 0
    /\ last_score.score <= 1000
    /\ AllIdentical(last_score.signals) => last_score.score = 1000
    /\ \A other \in [DOMAIN last_score.signals -> SignalValues] :
         FurtherApart(last_score.signals, other) =>
           _calculate_consensus(other) <= last_score.score

\* signals that differ with one weighted score score 100, and some signals of
\* the same agents further apart score less
C25_Witness ==
  /\ last_score.score = 1000
  /\ \E a, b \in DOMAIN last_score.signals :
       last_score.signals[a] # last_score.signals[b]
  /\ \E other \in [DOMAIN last_score.signals -> SignalValues] :
       /\ FurtherApart(last_score.signals, other)
       /\ _calculate_consensus(other) < last_score.score

\* C26: a round in which no agent responds (the three advisory agents and the
\* RiskDoctor all raise) ends with a verdict HOLD of confidence 0.
C26_NobodyRespondsHolds ==
  (/\ last_round.task = "await"
   /\ RaisedAdvisory = 1..3
   /\ last_round.risk.raised) =>
    /\ last_round.outcome = "returned"
    /\ last_round.final_verdict # None
    /\ last_round.final_verdict[1].signal_type = "HOLD"
    /\ last_round.final_verdict[1].confidence = 0

\* C27: no two analyze_stock calls for one symbol are in flight together, and
\* the messages a round collects from the advisory agents are those of its
\* own agent calls, one from each agent that returned.
C27_OneRoundPerSymbol ==
  /\ \A t, u \in RoundTasks :
       (t # u /\ rounds[t].pc = "gather" /\ rounds[u].pc = "gather") =>
         rounds[t].symbol # rounds[u].symbol
  /\ last_round.task \in RoundTasks =>
       \A i \in 1..3 :
         last_round.messages[AdvisoryAgents[i]] =
           IF last_round.results[i].raised THEN << >> ELSE <<last_round.task>>

\* ------------------------------------------------------------------------
\* Properties of the learning system
\* ------------------------------------------------------------------------
\* C28: every agent weight lies between min_agent_weight and max_agent_weight
\* (and so is not negative), whatever outcomes were recorded.
C28_WeightsWithinLimits ==
  \A a \in DOMAIN agent_weights :
    /\ ~FracLess(agent_weights[a], min_agent_weight)
    /\ ~FracLess(max_agent_weight, agent_weights[a])
    /\ agent_weights[a][1] >= 0 /\ agent_weights[a][2] > 0

\* after an adjustment one weight stands at the lower limit and one at the
\* upper limit
C28_Witness ==
  /\ last_weight_update # None
  /\ \E a, b \in DOMAIN agent_weights :
       /\ agent_weights[a] = min_agent_weight
       /\ agent_weights[b] = max_agent_weight

\* C29: a step changes an agent weight or last_weight_update only if it is a
\* record_outcome call in which the tracker did not raise, at least
\* min_signals_for_evaluation signals were counted and there was no earlier
\* adjustment or one at least 7 days back; it then sets last_weight_update to
\* the day of the call.
C29_WeightsMutatedOncePerCycle ==
  [][(agent_weights' # agent_weights \/ last_weight_update' # last_weight_update) =>
       /\ last_weight_update = None \/ now - last_weight_update[1] >= 7
       /\ ~last_record'.raised
       /\ last_record'.total >= min_signals_for_evaluation
       /\ last_weight_update' = <<now>>]_vars

\* a second adjustment, made 7 days or more after the first
C29_Witness ==
  /\ last_record.last # None
  /\ last_weight_update = <<last_record.day>>
  /\ last_record.day - last_record.last[1] >= 7
  /\ agent_weights # initial_agent_weights

\* ------------------------------------------------------------------------
\* Properties of the test trade
\* ------------------------------------------------------------------------
\* C30: a position is handed to the exit scheduler only after its BUY order
\* was filled: the order of a trade that led to tracking is FILLED, never
\* REJECTED, and every tracked position has a filled BUY order of its symbol
\* and quantity.
C30_TrackedOnlyAfterFill ==
  /\ last_trade.tracked =>
       /\ last_trade.order # None
       /\ last_trade.order[1].side = "BUY"
       /\ last_trade.order[1].status = "FILLED"
  /\ \A i \in 1..Len(sched_positions) :
       \E j \in 1..Len(orders) :
         /\ orders[j].symbol = sched_positions[i].symbol
         /\ orders[j].side = "BUY"
         /\ orders[j].status = "FILLED"
         /\ orders[j].quantity = sched_positions[i].quantity

\* a test trade whose order was filled and whose position is tracked
C30_Witness ==
  /\ last_trade.tracked
  /\ last_trade.order[1].status = "FILLED"
  /\ \E i \in 1..Len(sched_positions) :
       /\ sched_positions[i].symbol = last_trade.symbol
       /\ sched_positions[i].quantity = last_trade.order[1].quantity

RECURSIVE WeightedSpreadSearch(_, _, _, _)
WeightedSpreadSearch(lo, hi, k, V) ==
  IF lo >= hi THEN lo
  ELSE LET mid == (lo + hi) \div 2 IN
       IF k * k * (2 * mid + 1) * (2 * mid + 1) >= V
         THEN WeightedSpreadSearch(lo, mid, k, V)
         ELSE WeightedSpreadSearch(mid + 1, hi, k, V)

\* 100 - min(100, 2 * stddev(s)) in tenths, for s[a] = the action score of
\* agent a * confidence / 100 * weights[a] (weights in tenths or coarser):
\* w[a] is 40 * s[a]
WeightedAgreement(signals, weights) ==
  IF DOMAIN signals = {} THEN 0
  ELSE
    LET k == Cardinality(DOMAIN signals)
        w == [a \in DOMAIN signals |->
                ((signal_scores[signals[a].signal_type] * signals[a].confidence)
                   \div 25) * weights[a][1] * (10 \div weights[a][2])]
        sq == [a \in DOMAIN signals |-> w[a] * w[a]]
        V == k * SumOver(sq, DOMAIN signals)
               - SumOver(w, DOMAIN signals) * SumOver(w, DOMAIN signals)
    IN 1000 - WeightedSpreadSearch(0, 1000, k, V)

\* C35: the consensus score is 100 - min(100, 2 * stddev(s)) where s holds,
\* for each responding agent, its action score weighted by confidence / 100
\* and by the weight the learning system holds for the agent.
C35_WeightsEnterAgreement ==
  last_score # NoScore =>
    last_score.score = WeightedAgreement(last_score.signals, agent_weights)

\* C36: the weight adaptation never runs concurrently with itself: of
\* record_outcome calls that overlap at most one is inside the adjustment at a
\* time, a call adjusts the weights only when no adjustment was made in the
\* last 7 days, and two calls that both adjusted ended 7 days apart or more.
C36_OneAdjustmentPerCycle ==
  /\ [](Cardinality({t \in LearnTasks : learn_tasks[t].pc = "await_adjust"}) <= 1)
  /\ [](\A t, u \in LearnTasks :
          (/\ t # u
           /\ learn_tasks[t].pc = "done" /\ learn_tasks[t].adjusted
           /\ learn_tasks[u].pc = "done" /\ learn_tasks[u].adjusted) =>
            \/ learn_tasks[t].day - learn_tasks[u].day >= 7
            \/ learn_tasks[u].day - learn_tasks[t].day >= 7)
  /\ [][\A t \in LearnTasks :
          (/\ learn_tasks[t].pc # "done"
           /\ learn_tasks'[t].pc = "done"
           /\ learn_tasks'[t].adjusted) =>
            /\ ~TooSoon(last_weight_update, now)
            /\ agent_weights' = _adjust_agent_weights(agent_weights, learn_tasks[t].metrics)]_vars

\* two calls that overlapped have ended on one day, both with enough signals:
\* one adjusted the weights and the other did not
C36_Witness ==
  \E t, u \in LearnTasks :
    /\ t # u
    /\ learn_tasks[t].pc = "done" /\ learn_tasks[u].pc = "done"
    /\ learn_tasks[t].overlapped /\ learn_tasks[u].overlapped
    /\ learn_tasks[t].day = learn_tasks[u].day
    /\ total_signals(learn_tasks[t].metrics) >= min_signals_for_evaluation
    /\ total_signals(learn_tasks[u].metrics) >= min_signals_for_evaluation
    /\ learn_tasks[t].adjusted /\ ~learn_tasks[u].adjusted
    /\ agent_weights # initial_agent_weights

\* ------------------------------------------------------------------------
\* Properties of one weight adjustment
\* ------------------------------------------------------------------------
FracLeq(x, y) == ~FracLess(y, x)

FracDiff(x, y) == FracSum(x, <<-y[1], y[2]>>)

\* 0.4 * accuracy + 0.3 * min(1, max(0, sharpe_ratio / 3)) + 0.3 * consistency_score
ConvexCombination(m) ==
  LET third == Frac(m.sharpe_ratio[1], 3 * m.sharpe_ratio[2])
      normalized == IF third[1] < 0 THEN <<0, 1>>
                    ELSE IF third[1] > third[2] THEN <<1, 1>>
                    ELSE third
  IN FracSum(FracProd(<<2, 5>>, m.accuracy),
             FracSum(FracProd(<<3, 10>>, normalized),
                     FracProd(<<3, 10>>, m.consistency_score)))

\* C37: in one adjustment an agent with at least 5 signals gets the weight
\* clamp(old + (target - old) * learning rate, [min_weight, max_weight]), the
\* target being 0.5 + 2.5 * (0.4 * accuracy + 0.3 * normalized Sharpe + 0.3 *
\* consistency); the new weight lies between the old weight and the target,
\* and when it is not clamped it has moved by the learning-rate fraction of
\* the distance.
C37_MovesTowardTarget ==
  (last_adjust # NoAdjust /\ last_adjust.metrics.total_signals >= 5) =>
    LET old == last_adjust.old_weight
        new == last_adjust.weights["Alex"]
        target == FracSum(<<1, 2>>, FracProd(<<5, 2>>, ConvexCombination(last_adjust.metrics)))
        moved == FracSum(old, FracProd(FracDiff(target, old), weight_adjustment_rate))
    IN /\ new = (IF FracLess(max_agent_weight, moved) THEN max_agent_weight
                 ELSE IF FracLess(moved, min_agent_weight) THEN min_agent_weight
                 ELSE moved)
       /\ FracLeq(min_agent_weight, new) /\ FracLeq(new, max_agent_weight)
       /\ \/ FracLeq(old, new) /\ FracLeq(new, target)
          \/ FracLeq(target, new) /\ FracLeq(new, old)
       /\ (FracLess(min_agent_weight, new) /\ FracLess(new, max_agent_weight)) =>
            FracDiff(new, old) = FracProd(weight_adjustment_rate, FracDiff(target, old))

\* accuracy 1, Sharpe 1.5, consistency 0.5: the target is 2.25, and the weight
\* 1.2 becomes 1.305, a tenth of the way to the target and short of it
C37_Witness ==
  /\ last_adjust # NoAdjust
  /\ last_adjust.metrics.total_signals >= 5
  /\ last_adjust.old_weight = <<6, 5>>
  /\ last_adjust.metrics.accuracy = <<1, 1>>
  /\ last_adjust.metrics.sharpe_ratio = <<3, 2>>
  /\ last_adjust.metrics.consistency_score = <<1, 2>>
  /\ last_adjust.weights["Alex"] = <<261, 200>>

\* ------------------------------------------------------------------------
\* Properties of a position under polling
\* ------------------------------------------------------------------------
SameHolding(p, q) ==
  /\ p.symbol = q.symbol
  /\ p.quantity = q.quantity
  /\ p.avg_price = q.avg_price
  /\ p.entry_date = q.entry_date

\* C38: a poll leaves the quantity, avg_price and entry_date of every position
\* as they were: the position each callback receives and every position still
\* monitored after the poll carry the values from before it, and a position
\* that exits leaves the monitoring whole.
C38_PollKeepsHolding ==
  [][last_poll' # << >> =>
       /\ Len(last_poll') = Len(sched_positions)
       /\ \A i \in 1..Len(sched_positions) :
            /\ SameHolding(last_poll'[i].position, sched_positions[i])
            /\ IF last_poll'[i].tracked_after
                 THEN \E j \in 1..Len(sched_positions') :
                        /\ sched_positions'[j] = last_poll'[i].position
                        /\ SameHolding(sched_positions'[j], sched_positions[i])
                 ELSE sched_positions[i].symbol \notin SchedSymbols(sched_positions')
       /\ \A j \in 1..Len(sched_positions') :
            \E i \in 1..Len(sched_positions) :
              SameHolding(sched_positions'[j], sched_positions[i])]_vars

\* a poll has moved the price and the peak of a position that stays monitored,
\* with the quantity it was added with
C38_Witness ==
  /\ last_poll # << >>
  /\ \E i \in 1..Len(last_poll) :
       /\ last_poll[i].fetched
       /\ last_poll[i].tracked_after
       /\ last_poll[i].position.current_price > last_poll[i].position.avg_price
       /\ last_poll[i].position.peak_price = last_poll[i].position.current_price
       /\ \E j \in 1..Len(sched_positions) :
            /\ sched_positions[j] = last_poll[i].position
            /\ sched_positions[j].quantity > 0

\* C39: while the clock does not go back, the trading_days_held of a monitored
\* position never decreases from one step to the next, and a position that is
\* sellable stays sellable for as long as it is monitored.
C39_SettlementIsMonotone ==
  [][now' >= now =>
       \A i \in 1..Len(sched_positions), j \in 1..Len(sched_positions') :
         SameHolding(sched_positions[i], sched_positions'[j]) =>
           /\ sched_positions'[j].trading_days_held
                >= sched_positions[i].trading_days_held
           /\ sched_positions[i].can_sell => sched_positions'[j].can_sell
           /\ (last_poll' # << >> /\ sched_positions[i].can_sell) =>
                last_poll'[i].can_sell]_vars

\* a position polled more than once (its peak lies above its last price and
\* above its entry price) is sellable on its third trading day or later
C39_Witness ==
  /\ last_poll # << >>
  /\ \E j \in 1..Len(sched_positions) :
       /\ sched_positions[j].can_sell
       /\ sched_positions[j].trading_days_held >= 3
       /\ sched_positions[j].peak_price > sched_positions[j].current_price
       /\ sched_positions[j].peak_price > sched_positions[j].avg_price

\* C40: when a position exits, each registered exit callback is called once,
\* in the order of registration, with the position carrying its exit reason;
\* the callbacks after one that raised are still called, and the position
\* is no longer monitored afterwards, whether or not a callback raised.
C40_EveryCallbackOnce ==
  \A i \in 1..Len(last_poll) :
    last_poll[i].exit_reason # NoReason =>
      /\ DOMAIN last_poll[i].calls = DOMAIN on_exit_callbacks
      /\ \A k \in DOMAIN on_exit_callbacks :
           /\ last_poll[i].calls[k].callback = on_exit_callbacks[k]
           /\ Cardinality({n \in DOMAIN last_poll[i].calls :
                             last_poll[i].calls[n].callback = on_exit_callbacks[k]}) = 1
      /\ last_poll[i].position.exit_reason = last_poll[i].exit_reason
      /\ last_poll[i].position.symbol = last_poll[i].symbol
      /\ ~last_poll[i].tracked_after
      /\ \A j \in 1..Len(sched_positions) :
           sched_positions[j].symbol # last_poll[i].symbol

\* an exit with two callbacks registered: the first raised, the second was
\* called after it and returned, and the position is gone
C40_Witness ==
  /\ Len(on_exit_callbacks) = 2
  /\ \E i \in 1..Len(last_poll) :
       /\ last_poll[i].exit_reason # NoReason
       /\ Len(last_poll[i].calls) = 2
       /\ last_poll[i].calls[1].raised
       /\ ~last_poll[i].calls[2].raised
       /\ last_poll[i].symbol \notin SchedSymbols(sched_positions)

====
